---- MODULE Spec2Model ----
(***************************************************************************)
(* Model of the match-scoring and gap-analysis core of ai-resume-parser.   *)
(*                                                                         *)
(* Text is modelled as a sequence of tokens: a digit, a punctuation mark   *)
(* or a whole word ("year", "Year", "month", ...).  Scores that the code   *)
(* rounds to two decimals are integers in hundredths (5000 is 50.00);      *)
(* unrounded float scores are exact fractions [num, den].                  *)
(* A Python call that raises is modelled by a record with ok = FALSE, and  *)
(* every try/except of the source by the branch that handles it.           *)
(***************************************************************************)
EXTENDS Integers, Sequences, FiniteSets, TLC

VARIABLES
    resume_data,      \* the dict handed to calculate_match_score
    job_description,  \* the job dict handed to calculate_match_score
    hashseed,         \* per worker process: the str hash seed of its interpreter
    match_result,     \* the result of the latest calculate_match_score call
    first_result,     \* the result of the first call on the current inputs
    duration,         \* a work-experience duration string handed to a parser
    parsed_months,    \* what the two _parse_duration_months return for it
    user_resumes,     \* the user's ParsedResume rows: skills['technical'] of each
    trending_skills,  \* the market table the trending-skills source returns
    skills_gap,       \* the result of the latest skills gap analysis
    analytics,        \* the result of the latest career, trends or salary analysis
    phase3_input,     \* the records and service answers semantic_job_matching reads
    semantic_match,   \* the result of the latest semantic_job_matching call
    cultural_assessment, \* the result of the latest cultural_fit_assessment call
    team_members,     \* the TeamMember rows, each a pair of user and organization
    team_items,       \* per organization, how many Resume and JobDescription rows
    team_response,    \* the latest team_analytics request and its Response
    work_durations,   \* the durations of a candidate's work_experience entries
    total_experience, \* what each total-experience aggregation makes of them
    job_title,        \* a position title handed to the level classifier
    job_level,        \* the level the classifier gave it
    career_input,     \* the user's work-experience entries, in resume order
    career_result,    \* what the career analyses and predictions returned
    processing_status, \* per Resume row: its processing_status column
    parsed_resume,    \* per Resume row: how many ParsedResume rows point to it
    task_queue,       \* per resume: parse_resume_task messages not yet taken
    dispatched,       \* per resume: parse_resume_task messages sent so far
    worker_task,      \* per worker: the parse_resume_task it runs and where it is
    bulk_response     \* the count of the latest bulk_parse Response

matchVars == <<resume_data, job_description, match_result, first_result>>
durationVars == <<duration, parsed_months>>
gapVars == <<user_resumes, trending_skills, skills_gap, analytics>>
phase3Vars == <<phase3_input, semantic_match, cultural_assessment>>
teamVars == <<team_members, team_items, team_response>>
experienceVars == <<work_durations, total_experience>>
careerVars == <<job_title, job_level, career_input, career_result>>
parseVars == <<processing_status, parsed_resume, task_queue, dispatched,
               worker_task, bulk_response>>

vars == <<resume_data, job_description, hashseed, match_result, first_result,
          duration, parsed_months, user_resumes, trending_skills, skills_gap,
          analytics,
          phase3_input, semantic_match, cultural_assessment,
          team_members, team_items, team_response,
          work_durations, total_experience,
          job_title, job_level, career_input, career_result,
          processing_status, parsed_resume, task_queue, dispatched,
          worker_task, bulk_response>>

\* the value of a result variable before any call
None == [none |-> TRUE]

(***************************************************************************)
(* Bounds of the model.                                                    *)
(***************************************************************************)
MaxJobs == 1          \* work_experience entries of a resume
MaxReqLen == 1        \* tokens of experience_required under SpecMatch
MaxGateLen == 3       \* tokens of experience_required under SpecGate
MaxDurLen == 3        \* tokens of a duration string under SpecDuration
MaxResumes == 1       \* ParsedResume rows of the user under SpecGap
MaxExperiences == 1   \* work_experience entries under SpecSemantic
MaxRequirements == 2  \* entries of job_desc.requirements under SpecSemantic

(***************************************************************************)
(* Python primitives.                                                      *)
(***************************************************************************)
Digits == {"0", "1", "2", "3", "4", "5", "6", "7", "8", "9"}

\* one token for a run of 400 nines: more digits than a float can hold,
\* fewer than the 4300 int() accepts
NinesRun == "9{400}"

\* str.isdigit on a token, \d on each of its characters
IsDigit(c) == c \in Digits \cup {NinesRun}

DigitVal(c) ==
    CASE c = "0" -> 0 [] c = "1" -> 1 [] c = "2" -> 2 [] c = "3" -> 3
      [] c = "4" -> 4 [] c = "5" -> 5 [] c = "6" -> 6 [] c = "7" -> 7
      [] c = "8" -> 8 [] c = "9" -> 9

\* str.lower() on one token
LowerTok(c) ==
    CASE c = "Year" -> "year"
      [] c = "Years" -> "years"
      [] c = "Month" -> "month"
      [] c = "Months" -> "months"
      [] c = "Present" -> "present"
      [] OTHER -> c

\* the tokens whose lower-cased text contains the substring 'year' / 'month'
HasYear(c) == LowerTok(c) \in {"year", "years"}
HasMonth(c) == LowerTok(c) \in {"month", "months"}

\* \s of a regular expression
IsSpace(c) == c = " "

RECURSIVE DecimalValue(_)
DecimalValue(ds) ==
    IF ds = <<>> THEN 0
    ELSE 10 * DecimalValue(SubSeq(ds, 1, Len(ds) - 1)) + DigitVal(ds[Len(ds)])

\* the digit string holds the run of 400 nines
HasNinesRun(s) == \E i \in 1..Len(s) : s[i] = NinesRun

\* int(s): raises ValueError unless s is a non-empty run of digits; big says
\* that the value is an integer of more than 400 digits, which val leaves out
PyInt(s) ==
    IF s # <<>> /\ \A i \in 1..Len(s) : IsDigit(s[i])
    THEN [ok |-> TRUE,
          val |-> IF HasNinesRun(s) THEN 0 ELSE DecimalValue(s),
          big |-> HasNinesRun(s)]
    ELSE [ok |-> FALSE, val |-> 0, big |-> FALSE]

\* ''.join(filter(str.isdigit, s))
FilterDigits(s) == SelectSeq(s, IsDigit)

\* round(100 * num / den, 2) in hundredths (round half to even), den > 0
Round2Pct(num, den) ==
    LET q == (10000 * num) \div den
        r == (10000 * num) % den
    IN  IF 2 * r > den THEN q + 1
        ELSE IF 2 * r = den THEN q + (q % 2)
        ELSE q

\* all token strings over an alphabet up to a length
StringsUpTo(alphabet, n) == UNION {[1..k -> alphabet] : k \in 0..n}

\* all lists over a set up to a length
ListsUpTo(S, n) == UNION {[1..k -> S] : k \in 0..n}

Range(f) == {f[i] : i \in DOMAIN f}

(***************************************************************************)
(* re.search of (\d+)\s*unit and (\d+(?:\.\d+)?)\s*unit on a token string.  *)
(***************************************************************************)
\* the end of the greedy \d+ that starts at p (p - 1 when s[p] is no digit)
RECURSIVE DigitsEnd(_, _)
DigitsEnd(s, p) ==
    IF p <= Len(s) /\ IsDigit(s[p]) THEN DigitsEnd(s, p + 1) ELSE p - 1

\* the first position at or after i that \s* does not consume
RECURSIVE SkipSpaces(_, _)
SkipSpaces(s, i) ==
    IF i <= Len(s) /\ IsSpace(s[i]) THEN SkipSpaces(s, i + 1) ELSE i

\* \s*unit matches at i
UnitFollows(s, i, Unit(_)) ==
    LET j == SkipSpaces(s, i) IN j <= Len(s) /\ Unit(s[j])

\* (\d+)\s*unit matches starting at p; the group is s[p..DigitsEnd(s, p)]
IntMatchAt(s, p, Unit(_)) ==
    /\ IsDigit(s[p])
    /\ UnitFollows(s, DigitsEnd(s, p) + 1, Unit)

\* the end of the optional (?:\.\d+) after the integer part ending at q
FractionEnd(s, q) ==
    IF q + 2 <= Len(s) /\ s[q + 1] = "." /\ IsDigit(s[q + 2])
    THEN DigitsEnd(s, q + 2) ELSE q

\* the end of the group of (\d+(?:\.\d+)?)\s*unit matched from p, 0 if none:
\* the fraction is tried first, then the integer part alone
FloatGroupEnd(s, p, Unit(_)) ==
    IF ~IsDigit(s[p]) THEN 0
    ELSE LET q == DigitsEnd(s, p)
             f == FractionEnd(s, q)
         IN  IF UnitFollows(s, f + 1, Unit) THEN f
             ELSE IF UnitFollows(s, q + 1, Unit) THEN q
             ELSE 0

SetMin(S) == CHOOSE x \in S : \A y \in S : x <= y

\* float(g) for a group digits[.digits], as the fraction num / den. An
\* integer part of more than 308 digits gives inf; a fraction that runs into
\* the 400 nines is the double of the digits before them, rounded up.
PyFloat(g) ==
    LET dot == {i \in 1..Len(g) : g[i] = "."}
        q == IF dot = {} THEN Len(g) ELSE SetMin(dot) - 1
        whole == PyInt(SubSeq(g, 1, q))
        digits == SubSeq(g, q + 2, Len(g))
        nines == {i \in 1..Len(digits) : digits[i] = NinesRun}
        kept == IF nines = {} THEN digits ELSE SubSeq(digits, 1, SetMin(nines) - 1)
        frac == IF dot = {} THEN [ok |-> TRUE, val |-> 0]
                ELSE [ok |-> PyInt(digits).ok,
                      val |-> DecimalValue(kept) + (IF nines = {} THEN 0 ELSE 1)]
        scale == IF dot = {} THEN 1 ELSE 10 ^ Len(kept)
    IN  [ok |-> whole.ok /\ frac.ok,
         inf |-> whole.big,
         num |-> whole.val * scale + frac.val,
         den |-> scale]

(***************************************************************************)
(* Skills and the iteration order of a Python set of str.                  *)
(***************************************************************************)
Skills == {"python", "react", "aws"}

Workers == {"w1", "w2"}

HashSeeds == {"a", "b"}

\* The order in which a set of these strings iterates in a process whose
\* str hashes are seeded with seed (PYTHONHASHSEED is random per process).
SetIterationOrder(seed) ==
    IF seed = "a"
    THEN <<"AWS", "Docker", "GraphQL", "Kubernetes", "Machine Learning",
           "Microservices", "Node.js", "Python", "React", "TypeScript",
           "aws", "django", "docker", "python", "python ", "react">>
    ELSE <<"react", "python ", "python", "docker", "django", "aws",
           "TypeScript", "React", "Python", "Node.js", "Microservices",
           "Machine Learning", "Kubernetes", "GraphQL", "Docker", "AWS">>

\* list(S) for a set S of skills
ListOfSet(S, seed) == SelectSeq(SetIterationOrder(seed), LAMBDA x : x \in S)

(***************************************************************************)
(* ResumeParserService (services.py)                                       *)
(***************************************************************************)
\* the shapes resume_data['skills'] takes: the key absent, the model's
\* default empty list, a dict without 'technical', a dict with it
SkillsShapes ==
    {[kind |-> "absent", technical |-> {}],
     [kind |-> "list", technical |-> {}],
     [kind |-> "dict_no_technical", technical |-> {}]}
    \cup {[kind |-> "dict", technical |-> S] : S \in SUBSET Skills}

DurationSamples ==
    {<<"2", " ", "years">>, <<"Year">>, <<"6", " ", "month">>}

\* _calculate_total_experience: one job's contribution in months
JobMonths(d) ==
    IF \E i \in 1..Len(d) : HasYear(d[i])
    THEN LET years == PyInt(FilterDigits(d))
         IN  [ok |-> years.ok, val |-> years.val * 12]
    ELSE [ok |-> TRUE, val |-> 0]

RECURSIVE SumMonths(_)
SumMonths(work_experience) ==
    IF work_experience = <<>> THEN [ok |-> TRUE, val |-> 0]
    ELSE LET head == JobMonths(work_experience[1])
             rest == SumMonths(Tail(work_experience))
         IN  [ok |-> head.ok /\ rest.ok, val |-> head.val + rest.val]

\* _calculate_total_experience: the bare except returns 0
CalculateTotalExperience(rd) ==
    LET total == SumMonths(rd.work_experience)
    IN  IF total.ok THEN total.val \div 12 ELSE 0

\* _check_experience_match: the bare except returns False
CheckExperienceMatch(resume_experience, required_experience) ==
    IF required_experience = <<>> THEN TRUE
    ELSE LET required_years == PyInt(FilterDigits(required_experience))
         IN  IF required_years.ok THEN resume_experience >= required_years.val
             ELSE FALSE

\* resume_data.get('skills', {}).get('technical', []): a list has no .get
ResumeTechnical(rd) ==
    IF rd.skills.kind = "list" THEN [ok |-> FALSE, val |-> {}]
    ELSE IF rd.skills.kind = "dict" THEN [ok |-> TRUE, val |-> rd.skills.technical]
    ELSE [ok |-> TRUE, val |-> {}]

\* the except branch of calculate_match_score
MatchFallback ==
    [match_score |-> 0,
     matched_skills |-> <<>>,
     missing_skills |-> <<>>,
     experience_match |->
        [resume_experience |-> 0, required_experience |-> <<>>, match |-> FALSE]]

\* a percentage that reads a job without required skills as fully matched
SkillMatchPercentageFullWhenEmpty(matched_skills, job_skills) ==
    IF job_skills # {}
    THEN Round2Pct(Len(matched_skills), Cardinality(job_skills))
    ELSE 10000

\* skill_match_percentage, then round(.., 2), in hundredths
SkillMatchPercentage(matched_skills, job_skills) ==
    IF job_skills # {}
    THEN Round2Pct(Len(matched_skills), Cardinality(job_skills))
    ELSE 0

\* a matched list kept on the service object and extended by every call
CalculateMatchScoreAccumulating(rd, jd, seed) ==
    LET technical == ResumeTechnical(rd)
        earlier == IF match_result = None THEN <<>> ELSE match_result.matched_skills
        matched_skills == earlier \o ListOfSet(technical.val \cap jd.skills_required, seed)
        missing_skills == ListOfSet(jd.skills_required \ technical.val, seed)
        resume_experience == CalculateTotalExperience(rd)
    IN  IF ~technical.ok THEN MatchFallback
        ELSE [match_score |-> SkillMatchPercentage(matched_skills, jd.skills_required),
              matched_skills |-> matched_skills,
              missing_skills |-> missing_skills,
              experience_match |->
                [resume_experience |-> resume_experience,
                 required_experience |-> jd.experience_required,
                 match |-> CheckExperienceMatch(resume_experience,
                                                jd.experience_required)]]

\* a score that divides by all the skills of both sides, so that a candidate
\* skill the job does not ask for lowers it
CalculateMatchScoreOverUnion(rd, jd, seed) ==
    LET technical == ResumeTechnical(rd)
        matched_skills == ListOfSet(technical.val \cap jd.skills_required, seed)
        missing_skills == ListOfSet(jd.skills_required \ technical.val, seed)
        resume_experience == CalculateTotalExperience(rd)
    IN  IF ~technical.ok THEN MatchFallback
        ELSE [match_score |->
                 SkillMatchPercentage(matched_skills,
                                      technical.val \cup jd.skills_required),
              matched_skills |-> matched_skills,
              missing_skills |-> missing_skills,
              experience_match |->
                [resume_experience |-> resume_experience,
                 required_experience |-> jd.experience_required,
                 match |-> CheckExperienceMatch(resume_experience,
                                                jd.experience_required)]]

CalculateMatchScore(rd, jd, seed) ==
    LET technical == ResumeTechnical(rd)
        resume_skills == technical.val
        job_skills == jd.skills_required
        matched_skills == ListOfSet(resume_skills \cap job_skills, seed)
        missing_skills == ListOfSet(job_skills \ resume_skills, seed)
        resume_experience == CalculateTotalExperience(rd)
        required_experience == jd.experience_required
    IN  IF ~technical.ok THEN MatchFallback
        ELSE [match_score |-> SkillMatchPercentage(matched_skills, job_skills),
              matched_skills |-> matched_skills,
              missing_skills |-> missing_skills,
              experience_match |->
                [resume_experience |-> resume_experience,
                 required_experience |-> required_experience,
                 match |-> CheckExperienceMatch(resume_experience,
                                                required_experience)]]

(***************************************************************************)
(* _parse_duration_months                                                  *)
(***************************************************************************)
\* the first months regex of both parsers: (\d+)\s*month
MonthsBranch(text) ==
    LET starts == {p \in 1..Len(text) : IntMatchAt(text, p, HasMonth)}
    IN  IF starts # {}
        THEN LET p == SetMin(starts)
                 months == PyInt(SubSeq(text, p, DigitsEnd(text, p)))
             IN  [ok |-> months.ok, val |-> months.val, big |-> months.big]
        ELSE [ok |-> TRUE, val |-> 12, big |-> FALSE]

\* AnalyticsViewSet._parse_duration_months
ViewsParseDurationMonths(d) ==
    IF d = <<>> THEN [ok |-> TRUE, val |-> 0, big |-> FALSE]
    ELSE LET text == [i \in 1..Len(d) |-> LowerTok(d[i])]
             starts == {p \in 1..Len(text) : IntMatchAt(text, p, HasYear)}
         IN  IF starts # {}
             THEN LET p == SetMin(starts)
                      years == PyInt(SubSeq(text, p, DigitsEnd(text, p)))
                  IN  [ok |-> years.ok, val |-> years.val * 12, big |-> years.big]
             ELSE MonthsBranch(text)

\* Phase3AIService._parse_duration_months: int(float(group) * 12), which
\* raises OverflowError on inf
Phase3ParseDurationMonths(d) ==
    IF d = <<>> THEN [ok |-> TRUE, val |-> 0, big |-> FALSE]
    ELSE LET text == [i \in 1..Len(d) |-> LowerTok(d[i])]
             starts == {p \in 1..Len(text) : FloatGroupEnd(text, p, HasYear) # 0}
         IN  IF starts # {}
             THEN LET p == SetMin(starts)
                      years == PyFloat(SubSeq(text, p, FloatGroupEnd(text, p, HasYear)))
                  IN  IF years.inf THEN [ok |-> FALSE, val |-> 0, big |-> FALSE]
                      ELSE [ok |-> years.ok,
                            val |-> (years.num * 12) \div years.den,
                            big |-> FALSE]
             ELSE MonthsBranch(text)

(***************************************************************************)
(* EnhancedAnalyticsService (services_enhanced.py)                         *)
(***************************************************************************)
\* _get_real_trending_skills: relevance and growth_rate in hundredths
MockTrendingSkills ==
    ("Python" :> [demand |-> 9500, relevance |-> 95, salary_impact |-> 15000, growth_rate |-> 12])
 @@ ("React" :> [demand |-> 8200, relevance |-> 92, salary_impact |-> 12000, growth_rate |-> 15])
 @@ ("AWS" :> [demand |-> 7800, relevance |-> 90, salary_impact |-> 18000, growth_rate |-> 18])
 @@ ("Docker" :> [demand |-> 6500, relevance |-> 88, salary_impact |-> 10000, growth_rate |-> 20])
 @@ ("Kubernetes" :> [demand |-> 6200, relevance |-> 87, salary_impact |-> 16000, growth_rate |-> 22])
 @@ ("Machine Learning" :> [demand |-> 5800, relevance |-> 93, salary_impact |-> 25000, growth_rate |-> 25])
 @@ ("Node.js" :> [demand |-> 5500, relevance |-> 85, salary_impact |-> 11000, growth_rate |-> 10])
 @@ ("TypeScript" :> [demand |-> 5300, relevance |-> 86, salary_impact |-> 9000, growth_rate |-> 14])
 @@ ("GraphQL" :> [demand |-> 4200, relevance |-> 82, salary_impact |-> 12000, growth_rate |-> 30])
 @@ ("Microservices" :> [demand |-> 4800, relevance |-> 84, salary_impact |-> 14000, growth_rate |-> 16])

\* the methods class EnhancedAnalyticsService defines; self.<other> raises
\* AttributeError
EnhancedAnalyticsServiceMethods ==
    {"calculate_skills_gap_analysis", "analyze_career_trajectory",
     "get_industry_trends", "get_salary_insights", "_get_real_trending_skills",
     "_get_priority_skills", "_generate_learning_path", "_normalize_experience",
     "_calculate_detailed_career_progression", "_ai_predict_career_trajectory",
     "_get_real_skills_trends", "_get_real_salary_benchmarks",
     "_get_default_skills_gap", "_get_default_career_trajectory",
     "_get_default_industry_trends", "_get_default_salary_insights"}

EnhancedDefines(method) == method \in EnhancedAnalyticsServiceMethods

\* current_skills: the defaultdict(int) counting each skill over the resumes
CurrentSkills(resumes) ==
    [skill \in UNION Range(resumes) |->
        Cardinality({i \in DOMAIN resumes : skill \in resumes[i]})]

\* sorted(.., key=market_impact, reverse=True): stable, equal keys keep order
RECURSIVE SortedByImpact(_)
SortedByImpact(items) ==
    IF items = <<>> THEN <<>>
    ELSE LET front == SortedByImpact(SubSeq(items, 1, Len(items) - 1))
             x == items[Len(items)]
             k == Cardinality({i \in 1..Len(front) :
                                 front[i].market_impact >= x.market_impact})
         IN  SubSeq(front, 1, k) \o <<x>> \o SubSeq(front, k + 1, Len(front))

\* _get_priority_skills
GetPrioritySkills(missing_skills, trending) ==
    LET listed == SelectSeq(missing_skills, LAMBDA skill : skill \in DOMAIN trending)
        entry(skill) ==
            [skill |-> skill,
             priority |-> IF trending[skill].demand > 6000 THEN "high" ELSE "medium",
             market_impact |-> trending[skill].salary_impact]
    IN  [ok |-> listed = <<>> \/ ( /\ EnhancedDefines("_estimate_learning_time")
                                   /\ EnhancedDefines("_get_learning_resources") ),
         val |-> SortedByImpact([i \in 1..Len(listed) |-> entry(listed[i])])]

SkillCategories ==
    <<[category |-> "frontend", skills |-> {"React", "Angular", "Vue.js", "TypeScript"}],
      [category |-> "backend", skills |-> {"Python", "Node.js", "Java", "Go"}],
      [category |-> "cloud", skills |-> {"AWS", "Azure", "GCP", "Docker", "Kubernetes"}],
      [category |-> "data", skills |-> {"Machine Learning", "Data Science", "SQL", "MongoDB"}],
      [category |-> "devops", skills |-> {"CI/CD", "Terraform", "Jenkins", "GitLab"}]>>

\* _generate_learning_path
GenerateLearningPath(missing_skills, existing_skills) ==
    LET grouped(c) == SelectSeq(missing_skills, LAMBDA skill : skill \in c.skills)
        entries == [i \in 1..Len(SkillCategories) |->
                      [category |-> SkillCategories[i].category,
                       skills |-> grouped(SkillCategories[i])]]
        emitted == SelectSeq(entries, LAMBDA e : e.skills # <<>>)
    IN  [ok |-> emitted = <<>> \/ ( /\ EnhancedDefines("_get_prerequisites")
                                    /\ EnhancedDefines("_estimate_category_timeline")
                                    /\ EnhancedDefines("_get_category_resources") ),
         val |-> emitted]

\* _get_default_skills_gap
EnhancedDefaultSkillsGap ==
    [service |-> "enhanced",
     current_skills |-> <<>>,
     trending_skills |-> <<>>,
     missing_skills |-> <<>>,
     existing_skills |-> <<>>,
     skill_scores |-> <<>>,
     gap_percentage |-> 0,
     priority_skills |-> <<>>,
     learning_path |-> <<>>,
     market_impact |-> <<>>]

\* EnhancedAnalyticsService.calculate_skills_gap_analysis
EnhancedSkillsGapAnalysis(resumes, trending, seed) ==
    LET current_skills == CurrentSkills(resumes)
        current_skill_set == DOMAIN current_skills
        trending_skill_set == DOMAIN trending
        missing_skills == ListOfSet(trending_skill_set \ current_skill_set, seed)
        existing_skills == ListOfSet(current_skill_set \cap trending_skill_set, seed)
        skill_scores == [skill \in Range(existing_skills) |->
                           [relevance |-> trending[skill].relevance,
                            demand |-> trending[skill].demand,
                            salary_impact |-> trending[skill].salary_impact]]
        total_trending == Cardinality(DOMAIN trending)
        gap_percentage == IF total_trending > 0
                          THEN Round2Pct(Len(missing_skills), total_trending)
                          ELSE 0
        priority_skills == GetPrioritySkills(missing_skills, trending)
        learning_path == GenerateLearningPath(missing_skills, existing_skills)
    IN  IF /\ priority_skills.ok
           /\ learning_path.ok
           /\ EnhancedDefines("_calculate_market_impact")
        THEN [service |-> "enhanced",
              current_skills |-> current_skills,
              trending_skills |-> trending,
              missing_skills |-> missing_skills,
              existing_skills |-> existing_skills,
              skill_scores |-> skill_scores,
              gap_percentage |-> gap_percentage,
              priority_skills |-> priority_skills.val,
              learning_path |-> learning_path.val,
              market_impact |-> <<>>]
        ELSE EnhancedDefaultSkillsGap

\* a priority loop that pops each missing skill it has handled off the table
TrendingAfterAnalysisPopped(trending, resumes) ==
    [skill \in DOMAIN trending \cap UNION Range(resumes) |-> trending[skill]]

\* the table after an analysis: the code only reads it (keys, get, in, [])
TrendingAfterAnalysis(trending, resumes) == trending

\* the keys of the record calculate_skills_gap_analysis builds on success
SkillsGapKeys ==
    {"current_skills", "trending_skills", "missing_skills", "existing_skills",
     "skill_scores", "gap_percentage", "priority_skills", "learning_path",
     "market_impact"}

\* the methods analyze_career_trajectory calls on self, and the keys of the
\* record it builds from them
CareerTrajectoryCalls ==
    {"_normalize_experience", "_calculate_detailed_career_progression",
     "_ai_predict_career_trajectory", "_analyze_skill_evolution",
     "_analyze_industry_transitions", "_determine_current_level",
     "_predict_next_roles", "_calculate_salary_progression",
     "_identify_career_skill_gaps", "_generate_career_recommendations"}

CareerTrajectoryKeys ==
    {"work_experiences", "career_progression", "future_predictions",
     "skill_evolution", "industry_transitions", "current_level", "next_roles",
     "salary_progression", "skill_gaps", "recommendations"}

\* a default record written without next_roles
EnhancedDefaultCareerTrajectoryNoNextRoles ==
    [work_experiences |-> <<>>,
     career_progression |-> <<>>,
     future_predictions |-> <<>>,
     skill_evolution |-> <<>>,
     industry_transitions |-> <<>>,
     current_level |-> "Unknown",
     salary_progression |-> <<>>,
     skill_gaps |-> <<>>,
     recommendations |-> <<>>]

\* _get_default_career_trajectory
EnhancedDefaultCareerTrajectory ==
    [work_experiences |-> <<>>,
     career_progression |-> <<>>,
     future_predictions |-> <<>>,
     skill_evolution |-> <<>>,
     industry_transitions |-> <<>>,
     current_level |-> "Unknown",
     next_roles |-> <<>>,
     salary_progression |-> <<>>,
     skill_gaps |-> <<>>,
     recommendations |-> <<>>]

\* get_industry_trends
IndustryTrendsCalls ==
    {"_get_real_skills_trends", "_get_real_role_trends",
     "_analyze_experience_requirements", "_get_real_salary_trends",
     "_analyze_industry_growth", "_analyze_technology_trends",
     "_calculate_market_demand", "_identify_emerging_technologies",
     "_analyze_regional_trends", "_analyze_company_size_trends"}

IndustryTrendsKeys ==
    {"skills_trends", "role_trends", "experience_trends", "salary_trends",
     "industry_growth", "tech_trends", "market_demand", "emerging_technologies",
     "regional_trends", "company_size_trends"}

\* _get_default_industry_trends
EnhancedDefaultIndustryTrends ==
    [skills_trends |-> <<>>,
     role_trends |-> <<>>,
     experience_trends |-> <<>>,
     salary_trends |-> <<>>,
     industry_growth |-> <<>>,
     tech_trends |-> <<>>,
     market_demand |-> <<>>,
     emerging_technologies |-> <<>>,
     regional_trends |-> <<>>,
     company_size_trends |-> <<>>]

\* get_salary_insights
SalaryInsightsCalls ==
    {"_calculate_total_experience", "_extract_skills_from_resumes",
     "_get_real_salary_benchmarks", "_calculate_detailed_market_value",
     "_analyze_location_salary", "_analyze_company_size_salary",
     "_calculate_skill_premiums", "_calculate_negotiation_leverage",
     "_calculate_career_stage_salary", "_compare_industry_salaries",
     "_generate_detailed_salary_recommendations"}

SalaryInsightsKeys ==
    {"current_experience", "current_skills", "salary_benchmarks", "market_value",
     "location_salary", "company_size_salary", "skill_premiums",
     "negotiation_leverage", "career_stage_salary", "industry_comparison",
     "recommendations"}

\* _get_default_salary_insights
EnhancedDefaultSalaryInsights ==
    [current_experience |-> 0,
     current_skills |-> <<>>,
     salary_benchmarks |-> <<>>,
     market_value |-> <<>>,
     location_salary |-> <<>>,
     company_size_salary |-> <<>>,
     skill_premiums |-> <<>>,
     negotiation_leverage |-> <<>>,
     career_stage_salary |-> <<>>,
     industry_comparison |-> <<>>,
     recommendations |-> <<>>]

\* one of the three operations: the record built from the calls when the
\* class defines every one of them (its values are those of the calls and are
\* left open), the default of the except branch when a call raises
\* AttributeError
EnhancedOperation(calls, keys, default) ==
    IF \A method \in calls : EnhancedDefines(method)
    THEN [key \in keys |-> "computed"]
    ELSE default

(***************************************************************************)
(* AdvancedAnalyticsService (analytics.py)                                 *)
(***************************************************************************)
\* _get_trending_skills: the list, in its written order
AdvancedTrendingOrder ==
    <<"Python", "React", "Node.js", "AWS", "Docker", "Kubernetes",
      "Machine Learning", "Data Science", "DevOps", "GraphQL",
      "TypeScript", "Microservices", "CI/CD", "Terraform", "PostgreSQL">>

SkillLower(skill) ==
    CASE skill = "Python" -> "python"
      [] skill = "React" -> "react"
      [] skill = "AWS" -> "aws"
      [] skill = "Docker" -> "docker"
      [] skill = "GraphQL" -> "graphql"
      [] skill = "Django" -> "django"
      [] OTHER -> skill

\* _calculate_skill_relevance in tenths; none of the modelled names is a
\* proper substring of another, so 'in' on the lower-cased names is equality
CalculateSkillRelevance(skill, trending_list) ==
    IF skill \in Range(trending_list) THEN 10
    ELSE IF \E i \in 1..Len(trending_list) :
                SkillLower(skill) = SkillLower(trending_list[i])
    THEN 7
    ELSE 3

\* _generate_skill_recommendations
GenerateSkillRecommendations(missing_skills, existing_skills) ==
    LET high_priority == <<"Python", "React", "AWS", "Machine Learning", "Docker">>
        learn == SelectSeq(high_priority, LAMBDA skill : skill \in Range(missing_skills))
    IN  [i \in 1..Len(learn) |-> <<"Learn", learn[i], "High market demand">>]
        \o (IF "Python" \in Range(existing_skills)
               /\ "Machine Learning" \in Range(missing_skills)
            THEN <<<<"Add Machine Learning to your Python skills">>>> ELSE <<>>)
        \o (IF "React" \in Range(existing_skills)
               /\ "Node.js" \in Range(missing_skills)
            THEN <<<<"Learn Node.js for full-stack development">>>> ELSE <<>>)

\* AdvancedAnalyticsService.calculate_skills_gap_analysis; gap_percentage is
\* the unrounded float 100 * num / den
AdvancedSkillsGapAnalysis(resumes, trending, seed) ==
    LET current_skill_set == UNION Range(resumes)
        trending_list == SelectSeq(AdvancedTrendingOrder,
                                   LAMBDA skill : skill \in DOMAIN trending)
        trending_skill_set == Range(trending_list)
        missing_skills == ListOfSet(trending_skill_set \ current_skill_set, seed)
        existing_skills == ListOfSet(current_skill_set \cap trending_skill_set, seed)
    IN  [service |-> "advanced",
         current_skills |-> ListOfSet(current_skill_set, seed),
         trending_skills |-> trending_list,
         missing_skills |-> missing_skills,
         existing_skills |-> existing_skills,
         skill_relevance_scores |->
            [skill \in current_skill_set |->
                CalculateSkillRelevance(skill, trending_list)],
         gap_percentage |->
            IF trending_list # <<>>
            THEN [num |-> Len(missing_skills), den |-> Len(trending_list)]
            ELSE [num |-> 0, den |-> 1],
         recommendations |->
            GenerateSkillRecommendations(missing_skills, existing_skills)]

(***************************************************************************)
(* Phase3AIService (services_phase3.py)                                    *)
(***************************************************************************)
\* a divisor taken as it is, whatever the length
Max1Unguarded(n) == n

\* max(len(...), 1): the divisor of every ratio of the relevance analyses
Max1(n) == IF n > 1 THEN n ELSE 1

\* skill_relationships of _find_related_skills
SkillRelationships ==
    ("python" :> {"django", "flask", "pandas", "numpy"})
 @@ ("javascript" :> {"react", "node.js", "vue.js", "angular"})
 @@ ("aws" :> {"cloud", "docker", "kubernetes", "devops"})

\* _find_related_skills: job skill -> the related resume skills, in the
\* iteration order of the two sets
FindRelatedSkills(resume_set, job_set, seed) ==
    LET relatedTo(job_skill) ==
            IF job_skill \in DOMAIN SkillRelationships
            THEN ListOfSet(resume_set \cap SkillRelationships[job_skill], seed)
            ELSE <<>>
    IN  [job_skill \in {j \in job_set : relatedTo(j) # <<>>} |-> relatedTo(job_skill)]

\* _analyze_skill_relevance; relevance_score is the float 100 * num / den
AnalyzeSkillRelevance(resume_skills, job_skills, seed) ==
    LET resume_set == {SkillLower(skill) : skill \in resume_skills}
        job_set == {SkillLower(skill) : skill \in job_skills}
        exact_matches == resume_set \cap job_set
        related_matches == FindRelatedSkills(resume_set, job_set, seed)
        missing_skills == (job_set \ resume_set) \ DOMAIN related_matches
        job_count == Max1(Cardinality(job_set))
    IN  [exact_matches |-> ListOfSet(exact_matches, seed),
         related_matches |-> related_matches,
         missing_skills |-> ListOfSet(missing_skills, seed),
         relevance_score |-> [num |-> 100 * Cardinality(exact_matches),
                              den |-> job_count]]

\* _calculate_requirement_relevance as matches / count; a text and a
\* requirement are the sets of their lower-cased words
CalculateRequirementRelevance(text, requirements) ==
    LET matches == Cardinality({i \in 1..Len(requirements) :
                                  requirements[i] \cap text # {}})
    IN  [num |-> matches,
         den |-> Max1(Len(requirements))]

\* _analyze_experience_relevance; ok is false when a duration makes
\* _parse_duration_months raise
AnalyzeExperienceRelevance(work_experience, requirements) ==
    LET score(exp) == CalculateRequirementRelevance(exp.text, requirements)
        relevant == SelectSeq(work_experience,
                              LAMBDA exp : 10 * score(exp).num > 3 * score(exp).den)
        parsed == [i \in 1..Len(relevant) |->
                      Phase3ParseDurationMonths(relevant[i].duration)]
        Sum[i \in 0..Len(parsed)] == IF i = 0 THEN 0 ELSE Sum[i - 1] + parsed[i].val
        exp_count == Max1(Len(work_experience))
    IN  [ok |-> \A i \in 1..Len(relevant) : parsed[i].ok,
         val |->
            [relevant_experience |->
                [i \in 1..Len(relevant) |->
                    [position |-> relevant[i].text,
                     relevance_score |-> score(relevant[i]),
                     duration |-> relevant[i].duration]],
             total_relevant_months |-> Sum[Len(parsed)],
             relevance_score |-> [num |-> 100 * Len(relevant), den |-> exp_count]]]

\* cultural_keywords of _analyze_cultural_fit
CulturalKeywords ==
    <<[culture_type |-> "collaborative", keywords |-> {"team", "collaborate", "together", "group"}],
      [culture_type |-> "innovative", keywords |-> {"innovate", "creative", "new", "cutting-edge"}],
      [culture_type |-> "fast-paced", keywords |-> {"fast", "quick", "rapid", "agile"}],
      [culture_type |-> "leadership", keywords |-> {"lead", "manage", "direct", "mentor"}],
      [culture_type |-> "learning", keywords |-> {"learn", "grow", "develop", "improve"}]>>

\* _analyze_cultural_fit over the keywords each text contains; every fit
\* min(resume_score / job_score, 1.0) is kept in twelfths (job_score <= 4)
AnalyzeCulturalFit(resume_keywords, job_keywords) ==
    LET resume_score(i) == Cardinality(CulturalKeywords[i].keywords \cap resume_keywords)
        job_score(i) == Cardinality(CulturalKeywords[i].keywords \cap job_keywords)
        scored == {i \in 1..Len(CulturalKeywords) : job_score(i) > 0}
        twelfths(i) == IF resume_score(i) >= job_score(i) THEN 12
                       ELSE (12 * resume_score(i)) \div job_score(i)
        Total[i \in 0..Len(CulturalKeywords)] ==
            IF i = 0 THEN 0
            ELSE Total[i - 1] + (IF i \in scored THEN twelfths(i) ELSE 0)
        fit_count == Max1(Cardinality(scored))
    IN  [overall_fit |-> [num |-> Total[Len(CulturalKeywords)], den |-> 12 * fit_count],
         cultural_indicators |->
            [culture_type \in {CulturalKeywords[i].culture_type : i \in scored} |->
                LET i == CHOOSE k \in scored : CulturalKeywords[k].culture_type = culture_type
                IN  [num |-> twelfths(i), den |-> 12]]]

\* a fit that measures an expectation under the range against its upper end
CalculateSalaryFitAgainstMax(expected, min_sal, max_sal) ==
    IF expected = 0 THEN [num |-> 100, den |-> 1]
    ELSE IF expected >= min_sal /\ expected <= max_sal THEN [num |-> 100, den |-> 1]
    ELSE IF expected < min_sal THEN [num |-> 100 * expected, den |-> max_sal + 1]
    ELSE [num |-> 100 * max_sal, den |-> expected]

\* _calculate_salary_fit as the float num / den; expected 0 stands for None
CalculateSalaryFit(expected, min_sal, max_sal) ==
    IF expected = 0 THEN [num |-> 100, den |-> 1]
    ELSE IF expected >= min_sal /\ expected <= max_sal THEN [num |-> 100, den |-> 1]
    ELSE IF expected < min_sal THEN [num |-> 100 * expected, den |-> min_sal]
    ELSE [num |-> 100 * max_sal, den |-> expected]

\* _analyze_salary_alignment: expected is the first run of 4 to 6 digits in
\* the text of the resume record (0: none found, or a run of zeros)
AnalyzeSalaryAlignment(expected, salary_range) ==
    LET min_sal == salary_range.min
        max_sal == salary_range.max
    IN  [alignment |-> IF expected # 0 /\ expected < min_sal THEN "below_range"
                       ELSE IF expected # 0 /\ expected > max_sal THEN "above_range"
                       ELSE "aligned",
         expected_salary |-> expected,
         range_min |-> min_sal,
         range_max |-> max_sal,
         fit_percentage |-> CalculateSalaryFit(expected, min_sal, max_sal)]

\* _calculate_confidence_score: min(0.4 s + 0.3 k + 0.3 e, 100)
CalculateConfidenceScore(semantic_score, skill_relevance, experience_relevance) ==
    LET a == skill_relevance.relevance_score
        b == experience_relevance.relevance_score
        num == 4 * semantic_score * a.den * b.den + 3 * a.num * b.den + 3 * b.num * a.den
        den == 10 * a.den * b.den
    IN  IF num > 100 * den THEN [num |-> 100, den |-> 1]
        ELSE [num |-> num, den |-> den]

\* semantic_job_matching from line 78 on: the two records are taken as the
\* persistence layer delivers them, cosine is cosine_similarity of the two
\* embeddings in percent; trajectory_alignment and the texts of the result
\* (match_explanation, recommendations) are left out
SemanticJobMatching(in, seed) ==
    IF in.skills_kind = "list" THEN [error |-> "AttributeError"]
    ELSE
    LET semantic_score == in.cosine
        skill_relevance == AnalyzeSkillRelevance(in.technical, in.skills_required, seed)
        experience == AnalyzeExperienceRelevance(in.work_experience, in.requirements)
        experience_relevance == experience.val
    IN  IF ~experience.ok THEN [error |-> "OverflowError"]
        ELSE
        [overall_score |-> 100 * semantic_score,
         semantic_similarity |-> 100 * semantic_score,
         skill_relevance |-> skill_relevance,
         experience_relevance |-> experience_relevance,
         cultural_fit |-> AnalyzeCulturalFit(in.resume_keywords, in.job_keywords),
         salary_alignment |-> AnalyzeSalaryAlignment(in.expected_salary, in.salary_range),
         confidence_score |->
            CalculateConfidenceScore(semantic_score, skill_relevance,
                                     experience_relevance)]

(***************************************************************************)
(* Operations                                                              *)
(***************************************************************************)
\* calculate_match_score_task / the calculate_match view, run by worker w
CalculateMatch(w) ==
    /\ match_result' = CalculateMatchScore(resume_data, job_description, hashseed[w])
    /\ first_result' = IF first_result = None THEN match_result' ELSE first_result
    /\ UNCHANGED <<resume_data, job_description, hashseed>>
    /\ UNCHANGED <<durationVars, gapVars, phase3Vars, teamVars, experienceVars,
                   careerVars, parseVars>>

\* one work-experience duration goes through both parsers
ParseDurationMonths ==
    /\ parsed_months' = [phase3 |-> Phase3ParseDurationMonths(duration),
                         views |-> ViewsParseDurationMonths(duration)]
    /\ UNCHANGED <<duration, hashseed>>
    /\ UNCHANGED <<matchVars, gapVars, phase3Vars, teamVars, experienceVars,
                   careerVars, parseVars>>

\* the skills_gap view or task, served by EnhancedAnalyticsService in worker w
EnhancedSkillsGap(w) ==
    /\ skills_gap' = EnhancedSkillsGapAnalysis(user_resumes, trending_skills, hashseed[w])
    /\ trending_skills' = TrendingAfterAnalysis(trending_skills, user_resumes)
    /\ UNCHANGED <<user_resumes, analytics, hashseed>>
    /\ UNCHANGED <<matchVars, durationVars, phase3Vars, teamVars, experienceVars,
                   careerVars, parseVars>>

\* the same analysis served by AdvancedAnalyticsService in worker w
AdvancedSkillsGap(w) ==
    /\ skills_gap' = AdvancedSkillsGapAnalysis(user_resumes, trending_skills, hashseed[w])
    /\ trending_skills' = TrendingAfterAnalysis(trending_skills, user_resumes)
    /\ UNCHANGED <<user_resumes, analytics, hashseed>>
    /\ UNCHANGED <<matchVars, durationVars, phase3Vars, teamVars, experienceVars,
                   careerVars, parseVars>>

MatchIdle ==
    /\ resume_data = [skills |-> [kind |-> "absent", technical |-> {}],
                      work_experience |-> <<>>]
    /\ job_description = [skills_required |-> {}, experience_required |-> <<>>]
    /\ match_result = None
    /\ first_result = None

DurationIdle ==
    /\ duration = <<>>
    /\ parsed_months = None

GapIdle ==
    /\ user_resumes = <<>>
    /\ trending_skills = <<>>
    /\ skills_gap = None
    /\ analytics = None

\* the career_trajectory view
CareerTrajectory ==
    /\ analytics' = [operation |-> "analyze_career_trajectory",
                     result |-> EnhancedOperation(CareerTrajectoryCalls,
                                                  CareerTrajectoryKeys,
                                                  EnhancedDefaultCareerTrajectory)]
    /\ UNCHANGED <<user_resumes, trending_skills, skills_gap, hashseed>>
    /\ UNCHANGED <<matchVars, durationVars, phase3Vars, teamVars, experienceVars,
                   careerVars, parseVars>>

\* the industry_trends view
IndustryTrends ==
    /\ analytics' = [operation |-> "get_industry_trends",
                     result |-> EnhancedOperation(IndustryTrendsCalls,
                                                  IndustryTrendsKeys,
                                                  EnhancedDefaultIndustryTrends)]
    /\ UNCHANGED <<user_resumes, trending_skills, skills_gap, hashseed>>
    /\ UNCHANGED <<matchVars, durationVars, phase3Vars, teamVars, experienceVars,
                   careerVars, parseVars>>

\* the salary_insights view
SalaryInsights ==
    /\ analytics' = [operation |-> "get_salary_insights",
                     result |-> EnhancedOperation(SalaryInsightsCalls,
                                                  SalaryInsightsKeys,
                                                  EnhancedDefaultSalaryInsights)]
    /\ UNCHANGED <<user_resumes, trending_skills, skills_gap, hashseed>>
    /\ UNCHANGED <<matchVars, durationVars, phase3Vars, teamVars, experienceVars,
                   careerVars, parseVars>>

\* the semantic_match view or task, run by worker w
SemanticMatch(w) ==
    /\ semantic_match' = SemanticJobMatching(phase3_input, hashseed[w])
    /\ UNCHANGED <<phase3_input, cultural_assessment, hashseed>>
    /\ UNCHANGED <<matchVars, durationVars, gapVars, teamVars, experienceVars,
                   careerVars, parseVars>>

\* a parsed resume and a job with nothing in them, embeddings at cosine 0.5
Phase3Default ==
    [cosine |-> 50,
     skills_kind |-> "dict",
     technical |-> {},
     skills_required |-> {},
     work_experience |-> <<>>,
     requirements |-> <<>>,
     resume_keywords |-> {},
     job_keywords |-> {},
     expected_salary |-> 0,
     salary_range |-> [min |-> 0, max |-> 0]]

Phase3Idle ==
    /\ phase3_input = Phase3Default
    /\ semantic_match = None
    /\ cultural_assessment = None

TeamIdle ==
    /\ team_members = {}
    /\ team_items = <<>>
    /\ team_response = None

ExperienceIdle ==
    /\ work_durations = <<>>
    /\ total_experience = None

CareerIdle ==
    /\ job_title = {}
    /\ job_level = None
    /\ career_input = <<>>
    /\ career_result = None

\* the Resume rows of the requesting user
ResumeIds == {"r1", "r2"}

\* no resume uploaded for parsing: every row as models.py creates it
ParseIdle ==
    /\ processing_status = [rid \in ResumeIds |-> "pending"]
    /\ parsed_resume = [rid \in ResumeIds |-> 0]
    /\ task_queue = [rid \in ResumeIds |-> 0]
    /\ dispatched = [rid \in ResumeIds |-> 0]
    /\ worker_task = [w \in Workers |-> None]
    /\ bulk_response = None

ReqChars == {"3", "5", "-"}

ResumeInputs(shapes, n) ==
    [skills : shapes, work_experience : ListsUpTo(DurationSamples, n)]

JobInputs(skillsets, n) ==
    [skills_required : skillsets, experience_required : StringsUpTo(ReqChars, n)]

InitMatch ==
    /\ resume_data \in ResumeInputs(SkillsShapes, MaxJobs)
    /\ job_description \in JobInputs(SUBSET Skills, MaxReqLen)
    /\ hashseed \in [Workers -> HashSeeds]
    /\ match_result = None
    /\ first_result = None
    /\ DurationIdle
    /\ GapIdle
    /\ Phase3Idle
    /\ TeamIdle
    /\ ExperienceIdle
    /\ CareerIdle
    /\ ParseIdle

NextMatch == \E w \in Workers : CalculateMatch(w)

SpecMatch == InitMatch /\ [][NextMatch]_vars

\* the experience gate over every bounded experience_required string
GateShapes ==
    {[kind |-> "dict", technical |-> {"python"}],
     [kind |-> "dict_no_technical", technical |-> {}]}

InitGate ==
    /\ resume_data \in ResumeInputs(GateShapes, MaxJobs)
    /\ job_description \in JobInputs({{}, {"python"}}, MaxGateLen)
    /\ hashseed \in [Workers -> HashSeeds]
    /\ match_result = None
    /\ first_result = None
    /\ DurationIdle
    /\ GapIdle
    /\ Phase3Idle
    /\ TeamIdle
    /\ ExperienceIdle
    /\ CareerIdle
    /\ ParseIdle

NextGate == \E w \in Workers : CalculateMatch(w)

SpecGate == InitGate /\ [][NextGate]_vars

DurChars == {"3", "5", NinesRun, ".", " ", "years", "Months", "Present"}

InitDuration ==
    /\ duration \in StringsUpTo(DurChars, MaxDurLen)
    /\ parsed_months = None
    /\ hashseed \in [Workers -> {"a"}]
    /\ MatchIdle
    /\ GapIdle
    /\ Phase3Idle
    /\ TeamIdle
    /\ ExperienceIdle
    /\ CareerIdle
    /\ ParseIdle

NextDuration == ParseDurationMonths

SpecDuration == InitDuration /\ [][NextDuration]_vars

\* the skills a modelled resume can list, and the keys of the mock table kept
UserSkills == {"Python", "React", "AWS", "python"}

TrendingKeys == {"Python", "React", "AWS", "Docker", "GraphQL"}

InitGap ==
    /\ user_resumes \in ListsUpTo(SUBSET UserSkills, MaxResumes)
    /\ trending_skills \in {[skill \in keys |-> MockTrendingSkills[skill]] :
                                keys \in SUBSET TrendingKeys \cup {DOMAIN MockTrendingSkills}}
    /\ skills_gap = None
    /\ analytics = None
    /\ hashseed \in {[w \in Workers |-> seed] : seed \in HashSeeds}
    /\ MatchIdle
    /\ DurationIdle
    /\ Phase3Idle
    /\ TeamIdle
    /\ ExperienceIdle
    /\ CareerIdle
    /\ ParseIdle

NextGap ==
    \/ \E w \in Workers : EnhancedSkillsGap(w)
    \/ \E w \in Workers : AdvancedSkillsGap(w)

SpecGap == InitGap /\ [][NextGap]_vars

\* the four operations of EnhancedAnalyticsService behind AnalyticsViewSet
NextAnalytics ==
    \/ \E w \in Workers : EnhancedSkillsGap(w)
    \/ CareerTrajectory
    \/ IndustryTrends
    \/ SalaryInsights

SpecAnalytics == InitGap /\ [][NextAnalytics]_vars

\* cosine_similarity of two embeddings, in percent
CosineValues == {-100, -25, 0, 50, 100}

Phase3ResumeSkills == {"Python", "Django", "docker"}

Phase3JobSkills == {"python", "AWS", "django"}

ExperienceSamples ==
    [text : {{}, {"python"}, {"python", "team"}},
     duration : {<<"3", " ", "years">>, <<"Present">>, <<NinesRun, "years">>}]

RequirementSamples == {{"python"}, {"lead", "team"}, {}}

KeywordSamples == {"team", "group", "lead", "learn"}

ExpectedSalaries == {0, 2024, 50000, 90000, 150000}

SalaryRanges ==
    {[min |-> 0, max |-> 0], [min |-> 60000, max |-> 100000],
     [min |-> 60000, max |-> 0], [min |-> 0, max |-> 100000]}

\* each group of inputs is varied over its whole set with the others at
\* their defaults, the cosine with both relevance groups
Phase3Inputs ==
    {[Phase3Default EXCEPT !.cosine = c, !.technical = r, !.skills_required = j] :
        c \in CosineValues, r \in SUBSET Phase3ResumeSkills, j \in SUBSET Phase3JobSkills}
    \cup {[Phase3Default EXCEPT !.skills_kind = "list"]}
    \cup {[Phase3Default EXCEPT !.cosine = c, !.work_experience = w, !.requirements = q] :
        c \in CosineValues,
        w \in ListsUpTo(ExperienceSamples, MaxExperiences),
        q \in ListsUpTo(RequirementSamples, MaxRequirements)}
    \cup {[Phase3Default EXCEPT !.resume_keywords = rk, !.job_keywords = jk] :
        rk \in SUBSET KeywordSamples, jk \in SUBSET KeywordSamples}
    \cup {[Phase3Default EXCEPT !.expected_salary = e, !.salary_range = sr] :
        e \in ExpectedSalaries, sr \in SalaryRanges}

InitSemantic ==
    /\ phase3_input \in Phase3Inputs
    /\ semantic_match = None
    /\ cultural_assessment = None
    /\ hashseed \in {[w \in Workers |-> seed] : seed \in HashSeeds}
    /\ MatchIdle
    /\ DurationIdle
    /\ GapIdle
    /\ TeamIdle
    /\ ExperienceIdle
    /\ CareerIdle
    /\ ParseIdle

NextSemantic == \E w \in Workers : SemanticMatch(w)

SpecSemantic == InitSemantic /\ [][NextSemantic]_vars

\* the three services called in any order: from the inputs of one semantic
\* match, with the baseline match on a job without required skills and the
\* gap analyses on an empty trending table
\* (the cosine, which is no divisor, stays at its default)
InitGuards ==
    /\ phase3_input \in {in \in Phase3Inputs : in.cosine = Phase3Default.cosine}
    /\ semantic_match = None
    /\ cultural_assessment = None
    /\ hashseed \in {[w \in Workers |-> seed] : seed \in HashSeeds}
    /\ MatchIdle
    /\ DurationIdle
    /\ GapIdle
    /\ TeamIdle
    /\ ExperienceIdle
    /\ CareerIdle
    /\ ParseIdle

NextGuards == NextSemantic \/ NextMatch \/ NextGap

SpecGuards == InitGuards /\ [][NextGuards]_vars

(***************************************************************************)
(* AnalyticsViewSet.team_analytics (views_enhanced.py)                     *)
(***************************************************************************)
MaxTeamItems == 1

Users == {"alice", "bob"}

Organizations == {"org1", "org2"}

\* the organization_id query parameter: absent, empty, the key of an
\* organization, or a well-formed key no organization has
OrganizationIdParams ==
    {[present |-> FALSE, value |-> ""], [present |-> TRUE, value |-> ""]}
    \cup {[present |-> TRUE, value |-> id] : id \in Organizations \cup {"org9"}}

\* `not organization_id`: request.GET.get gave None or the empty string
NoOrganizationId(param) == ~param.present \/ param.value = ""

\* a lookup that finds a row of the user in any organization
TeamMemberOfAnyOrganization(members, user, organization_id) ==
    \E m \in members : m[1] = user

\* TeamMember.objects.get(user=request.user, organization_id=organization_id)
\* finds a row
TeamMemberExists(members, user, organization_id) ==
    <<user, organization_id>> \in members

\* _get_team_analytics: the counts of the organization's rows (the other
\* entries of the dict aggregate rows this model does not carry)
GetTeamAnalytics(members, items, organization_id) ==
    [total_resumes |-> items[organization_id].resumes,
     total_jobs |-> items[organization_id].jobs,
     team_size |-> Cardinality({m \in members : m[2] = organization_id})]

TeamAnalyticsResponse(members, items, user, param) ==
    IF NoOrganizationId(param)
    THEN [status |-> 400, data |-> [error |-> "organization_id is required"]]
    ELSE IF ~TeamMemberExists(members, user, param.value)
    THEN [status |-> 403, data |-> [error |-> "Not authorized to view team analytics"]]
    ELSE [status |-> 200, data |-> GetTeamAnalytics(members, items, param.value)]

\* GET team_analytics by an authenticated user
TeamAnalytics(user, param) ==
    /\ team_response' = [user |-> user, param |-> param,
                         response |-> TeamAnalyticsResponse(team_members, team_items,
                                                            user, param)]
    /\ UNCHANGED <<team_members, team_items, hashseed>>
    /\ UNCHANGED <<matchVars, durationVars, gapVars, phase3Vars, experienceVars,
                   careerVars, parseVars>>

InitTeam ==
    /\ team_members \in SUBSET (Users \X Organizations)
    /\ team_items \in [Organizations -> [resumes : 0..MaxTeamItems,
                                         jobs : 0..MaxTeamItems]]
    /\ team_response = None
    /\ hashseed \in [Workers -> {"a"}]
    /\ MatchIdle
    /\ DurationIdle
    /\ GapIdle
    /\ Phase3Idle
    /\ ExperienceIdle
    /\ CareerIdle
    /\ ParseIdle

NextTeam == \E user \in Users, param \in OrganizationIdParams : TeamAnalytics(user, param)

SpecTeam == InitTeam /\ [][NextTeam]_vars

(***************************************************************************)
(* The total-experience aggregations                                       *)
(***************************************************************************)
MaxHistory == 2

\* total_months += months over the parsed entries; ok is lost when one raised
RECURSIVE SumParsed(_)
SumParsed(parsed) ==
    IF parsed = <<>> THEN [ok |-> TRUE, val |-> 0]
    ELSE LET rest == SumParsed(Tail(parsed))
         IN  [ok |-> parsed[1].ok /\ rest.ok, val |-> parsed[1].val + rest.val]

\* AdvancedAnalyticsService._extract_years_from_duration, times 12
AdvancedExtractMonths(d) ==
    LET text == [i \in 1..Len(d) |-> LowerTok(d[i])]
        starts == {p \in 1..Len(text) : IntMatchAt(text, p, HasYear)}
    IN  IF starts # {}
        THEN LET p == SetMin(starts)
                 years == PyInt(SubSeq(text, p, DigitsEnd(text, p)))
             IN  [ok |-> years.ok, val |-> years.val * 12]
        ELSE [ok |-> TRUE, val |-> 1 * 12]

\* AdvancedAnalyticsService._calculate_total_experience over the entries of
\* the user's resumes
AdvancedTotalExperience(experiences) ==
    LET total_months == SumParsed([i \in 1..Len(experiences) |->
                                       AdvancedExtractMonths(experiences[i])])
    IN  [ok |-> total_months.ok, years |-> total_months.val \div 12]

\* ResumeParserService._calculate_total_experience of a resume with these entries
BaselineTotalExperience(experiences) ==
    [ok |-> TRUE,
     years |-> CalculateTotalExperience([work_experience |-> experiences])]

\* AnalyticsViewSet._calculate_resume_experience
CalculateResumeExperience(experiences) ==
    LET total_months == SumParsed([i \in 1..Len(experiences) |->
                                       ViewsParseDurationMonths(experiences[i])])
    IN  [ok |-> total_months.ok, years |-> total_months.val \div 12]

\* Phase3AIService._analyze_user_career: career_data["total_experience"]
AnalyzeUserCareer(experiences) ==
    LET total_months == SumParsed([i \in 1..Len(experiences) |->
                                       Phase3ParseDurationMonths(experiences[i])])
    IN  [ok |-> total_months.ok, years |-> total_months.val \div 12]

BaselineExperience ==
    /\ total_experience' = [total_experience EXCEPT
                               !.baseline = BaselineTotalExperience(work_durations)]
    /\ UNCHANGED <<work_durations, hashseed>>
    /\ UNCHANGED <<matchVars, durationVars, gapVars, phase3Vars, teamVars,
                   careerVars, parseVars>>

AdvancedExperience ==
    /\ total_experience' = [total_experience EXCEPT
                               !.advanced = AdvancedTotalExperience(work_durations)]
    /\ UNCHANGED <<work_durations, hashseed>>
    /\ UNCHANGED <<matchVars, durationVars, gapVars, phase3Vars, teamVars,
                   careerVars, parseVars>>

ResumeExperience ==
    /\ total_experience' = [total_experience EXCEPT
                               !.views = CalculateResumeExperience(work_durations)]
    /\ UNCHANGED <<work_durations, hashseed>>
    /\ UNCHANGED <<matchVars, durationVars, gapVars, phase3Vars, teamVars,
                   careerVars, parseVars>>

CareerExperience ==
    /\ total_experience' = [total_experience EXCEPT
                               !.career = AnalyzeUserCareer(work_durations)]
    /\ UNCHANGED <<work_durations, hashseed>>
    /\ UNCHANGED <<matchVars, durationVars, gapVars, phase3Vars, teamVars,
                   careerVars, parseVars>>

HistoryDurations ==
    {<<"3", " ", "years">>, <<"years">>, <<"6", " ", "Months">>,
     <<"2", " ", "years", " ", "3", " ", "months">>, <<"Present">>, <<>>}

InitExperience ==
    /\ work_durations \in ListsUpTo(HistoryDurations, MaxHistory)
    /\ total_experience = [baseline |-> None, advanced |-> None,
                           views |-> None, career |-> None]
    /\ hashseed \in [Workers -> {"a"}]
    /\ MatchIdle
    /\ DurationIdle
    /\ GapIdle
    /\ Phase3Idle
    /\ TeamIdle
    /\ CareerIdle
    /\ ParseIdle

NextExperience ==
    \/ BaselineExperience
    \/ AdvancedExperience
    \/ ResumeExperience
    \/ CareerExperience

SpecExperience == InitExperience /\ [][NextExperience]_vars

(***************************************************************************)
(* One skill written three ways, given to both matchers                    *)
(***************************************************************************)
\* capitalised, plain, and with a trailing blank
SkillSpellings == {"Python", "python", "python "}

InitSpellings ==
    /\ \E technical \in SUBSET SkillSpellings, required \in SUBSET SkillSpellings :
          /\ resume_data = [skills |-> [kind |-> "dict", technical |-> technical],
                            work_experience |-> <<>>]
          /\ job_description = [skills_required |-> required,
                                experience_required |-> <<>>]
          /\ phase3_input = [Phase3Default EXCEPT !.technical = technical,
                                                  !.skills_required = required]
    /\ match_result = None
    /\ first_result = None
    /\ semantic_match = None
    /\ cultural_assessment = None
    /\ hashseed \in {[w \in Workers |-> seed] : seed \in HashSeeds}
    /\ DurationIdle
    /\ GapIdle
    /\ TeamIdle
    /\ ExperienceIdle
    /\ CareerIdle
    /\ ParseIdle

NextSpellings == NextMatch \/ NextSemantic

SpecSpellings == InitSpellings /\ [][NextSpellings]_vars

(***************************************************************************)
(* Phase3AIService.cultural_fit_assessment                                 *)
(***************************************************************************)
\* the methods class Phase3AIService defines
Phase3AIServiceMethods ==
    {"upgrade_to_gpt4_parsing", "semantic_job_matching", "cultural_fit_assessment",
     "generate_cover_letter", "automated_resume_improvement",
     "real_time_job_market_analysis", "personalized_career_recommendations",
     "_get_text_embedding", "_enhance_parsed_data", "_fallback_parsing",
     "_extract_comprehensive_resume_text", "_extract_comprehensive_job_text",
     "_analyze_skill_relevance", "_find_related_skills",
     "_analyze_experience_relevance", "_calculate_requirement_relevance",
     "_parse_duration_months", "_analyze_cultural_fit", "_analyze_career_alignment",
     "_determine_career_stage", "_determine_next_step", "_analyze_salary_alignment",
     "_calculate_salary_fit", "_generate_match_explanation",
     "_generate_match_recommendations", "_calculate_confidence_score",
     "_extract_cultural_indicators", "_extract_job_cultural_indicators",
     "_generate_cover_letter_variations", "_adjust_tone",
     "_comprehensive_resume_analysis", "_fetch_real_time_market_data",
     "_analyze_user_career"}

Phase3Defines(method) == method \in Phase3AIServiceMethods

\* the methods cultural_fit_assessment calls on self before it returns
CulturalFitAssessmentCalls ==
    {"_extract_cultural_indicators", "_extract_job_cultural_indicators",
     "_analyze_values_alignment", "_analyze_work_style_compatibility",
     "_analyze_team_dynamics", "_analyze_communication_style",
     "_analyze_growth_mindset", "_get_values_alignment_details",
     "_get_work_style_details", "_get_team_dynamics_details",
     "_generate_cultural_fit_recommendations"}

CulturalFitAssessmentKeys ==
    {"overall_cultural_fit", "values_alignment", "work_style_compatibility",
     "team_dynamics", "communication_style", "growth_mindset",
     "detailed_analysis", "recommendations"}

\* cultural_fit_assessment: a call of a method the class does not define
\* raises AttributeError, which the except turns into the error record
CulturalFitAssessment ==
    IF \A method \in CulturalFitAssessmentCalls : Phase3Defines(method)
    THEN [key \in CulturalFitAssessmentKeys |-> "computed"]
    ELSE [error |-> "AttributeError"]

\* the cultural_fit view
CulturalAssessment ==
    /\ cultural_assessment' = CulturalFitAssessment
    /\ UNCHANGED <<phase3_input, semantic_match, hashseed>>
    /\ UNCHANGED <<matchVars, durationVars, gapVars, teamVars, experienceVars,
                   careerVars, parseVars>>

\* the two texts over every combination of the keyword samples
InitCultural ==
    /\ phase3_input \in
          {[Phase3Default EXCEPT !.resume_keywords = rk, !.job_keywords = jk] :
              rk \in SUBSET KeywordSamples, jk \in SUBSET KeywordSamples}
    /\ semantic_match = None
    /\ cultural_assessment = None
    /\ hashseed \in {[w \in Workers |-> seed] : seed \in HashSeeds}
    /\ MatchIdle
    /\ DurationIdle
    /\ GapIdle
    /\ TeamIdle
    /\ ExperienceIdle
    /\ CareerIdle
    /\ ParseIdle

NextCultural == NextSemantic \/ CulturalAssessment

SpecCultural == InitCultural /\ [][NextCultural]_vars

(***************************************************************************)
(* Career analysis of AdvancedAnalyticsService (analytics.py)              *)
(***************************************************************************)
MaxTitleWords == 3

MaxCareer == 2

\* 365 days in ticks of the clock; one analysis takes far fewer ticks
OneYear == 1000

\* the methods class AdvancedAnalyticsService defines
AdvancedAnalyticsServiceMethods ==
    {"calculate_skills_gap_analysis", "analyze_career_trajectory",
     "get_industry_trends", "get_salary_insights", "_get_trending_skills",
     "_calculate_skill_relevance", "_generate_skill_recommendations",
     "_parse_duration", "_calculate_career_progression",
     "_predict_career_trajectory", "_determine_job_level", "_suggest_next_roles",
     "_analyze_skill_growth", "_analyze_skills_trends", "_analyze_role_trends",
     "_analyze_experience_trends", "_get_salary_trends", "_get_salary_benchmarks",
     "_calculate_total_experience", "_extract_years_from_duration",
     "_calculate_market_value", "_calculate_skill_impact",
     "_calculate_experience_impact", "_generate_salary_recommendations",
     "_calculate_market_demand", "_calculate_industry_growth",
     "_get_required_skills_for_role", "_get_default_skills_gap",
     "_get_default_career_trajectory", "_get_default_industry_trends",
     "_get_default_salary_insights"}

AdvancedDefines(method) == method \in AdvancedAnalyticsServiceMethods

\* the keyword lists of _determine_job_level in the order of its branches
JobLevelKeywords ==
    <<[level |-> "Junior", keywords |-> {"junior", "entry", "associate", "0-2"}],
      [level |-> "Mid-level", keywords |-> {"mid", "intermediate", "3-5"}],
      [level |-> "Senior", keywords |-> {"senior", "lead", "sr", "6+"}],
      [level |-> "Lead", keywords |-> {"lead", "principal", "architect"}],
      [level |-> "Manager", keywords |-> {"manager", "director", "vp"}]>>

\* the words a modelled title is made of
TitleWords ==
    {"Senior", "Lead", "Engineer", "Leadership", "junior", "entry", "associate",
     "0-2", "mid", "intermediate", "3-5", "sr", "6+", "principal", "architect",
     "manager", "director", "vp"}

\* the keywords that are substrings of word.lower()
KeywordsInWord(word) ==
    CASE word = "Senior" -> {"senior"}
      [] word = "Lead" -> {"lead"}
      [] word = "Leadership" -> {"lead"}
      [] word = "Engineer" -> {}
      [] OTHER -> {word}

\* keyword in position_lower; a title is the set of its words
InPositionLower(keyword, position) ==
    \E word \in position : keyword \in KeywordsInWord(word)

\* a classifier that tries the Lead keywords before the Senior ones
DetermineJobLevelLeadFirst(position) ==
    LET hit(i) == \E keyword \in JobLevelKeywords[i].keywords :
                      InPositionLower(keyword, position)
    IN  IF hit(1) THEN JobLevelKeywords[1].level
        ELSE IF hit(2) THEN JobLevelKeywords[2].level
        ELSE IF hit(4) THEN JobLevelKeywords[4].level
        ELSE IF hit(3) THEN JobLevelKeywords[3].level
        ELSE IF hit(5) THEN JobLevelKeywords[5].level
        ELSE "Mid-level"

\* _determine_job_level
DetermineJobLevel(position) ==
    LET hit(i) == \E keyword \in JobLevelKeywords[i].keywords :
                      InPositionLower(keyword, position)
    IN  IF hit(1) THEN JobLevelKeywords[1].level
        ELSE IF hit(2) THEN JobLevelKeywords[2].level
        ELSE IF hit(3) THEN JobLevelKeywords[3].level
        ELSE IF hit(4) THEN JobLevelKeywords[4].level
        ELSE IF hit(5) THEN JobLevelKeywords[5].level
        ELSE "Mid-level"

\* _parse_duration at clock reading now: a duration that is no string (None)
\* raises inside the try and gives now as well
ParseDuration(text, now) ==
    IF text = "none" THEN now
    ELSE IF text \in {"present", "current"} THEN now
    ELSE now - OneYear

\* the work_experiences list of analyze_career_trajectory before the sort;
\* the clock reading of the i-th call of datetime.now() is i
WorkExperiences(entries) ==
    [i \in 1..Len(entries) |->
        [position |-> entries[i].position,
         duration |-> entries[i].duration,
         start_date |-> ParseDuration(entries[i].duration, i)]]

\* list.sort(key=lambda x: x['start_date']): stable, ascending
RECURSIVE SortByStartDate(_)
SortByStartDate(items) ==
    IF items = <<>> THEN <<>>
    ELSE LET front == SortByStartDate(SubSeq(items, 1, Len(items) - 1))
             x == items[Len(items)]
             k == Cardinality({i \in 1..Len(front) :
                                 front[i].start_date <= x.start_date})
         IN  SubSeq(front, 1, k) \o <<x>> \o SubSeq(front, k + 1, Len(front))

\* _calculate_career_progression
CalculateCareerProgression(experiences) ==
    [i \in 1..Len(experiences) |->
        [index |-> i - 1,
         position |-> experiences[i].position,
         level |-> DetermineJobLevel(experiences[i].position)]]

\* next_levels of _predict_career_trajectory
NextLevels ==
    ("Junior" :> <<"Mid-level", "Senior">>)
 @@ ("Mid-level" :> <<"Senior", "Lead">>)
 @@ ("Senior" :> <<"Lead", "Principal", "Manager">>)
 @@ ("Lead" :> <<"Principal", "Manager", "Director">>)
 @@ ("Principal" :> <<"Architect", "Director", "VP">>)
 @@ ("Manager" :> <<"Senior Manager", "Director", "VP">>)

\* f"{i+1} year{'s' if i+1 > 1 else ''}", the number and the unit
Timeline(n) == <<n, IF n > 1 THEN "years" ELSE "year">>

\* the first n elements of a list
Take(list, n) == SubSeq(list, 1, IF Len(list) < n THEN Len(list) ELSE n)

\* a prediction that reads the level of the first progression entry
PredictCareerTrajectoryFromFirst(progression) ==
    IF progression = <<>> THEN <<>>
    ELSE LET current_level == progression[1].level
             predictions == IF current_level \in DOMAIN NextLevels
                            THEN NextLevels[current_level]
                            ELSE <<"Senior", "Lead">>
             first == Take(predictions, 3)
         IN  [i \in 1..Len(first) |->
                 [predicted_role |-> first[i], timeline |-> Timeline(i)]]

\* _predict_career_trajectory (required_skills left out)
PredictCareerTrajectory(progression) ==
    IF progression = <<>> THEN <<>>
    ELSE LET current_level == progression[Len(progression)].level
             predictions == IF current_level \in DOMAIN NextLevels
                            THEN NextLevels[current_level]
                            ELSE <<"Senior", "Lead">>
             first == Take(predictions, 3)
         IN  [i \in 1..Len(first) |->
                 [predicted_role |-> first[i], timeline |-> Timeline(i)]]

\* the career_progression of EnhancedAnalyticsService.analyze_career_trajectory:
\* _normalize_experience calls self._parse_duration_range, catches the
\* AttributeError and returns None, so no entry reaches work_experiences
EnhancedCareerProgression(entries) ==
    IF EnhancedDefines("_parse_duration_range")
    THEN [i \in 1..Len(entries) |-> [index |-> i - 1, position |-> entries[i].position]]
    ELSE <<>>

\* EnhancedAnalyticsService._ai_predict_career_trajectory: past the empty
\* case it calls _calculate_skill_growth_rate and _get_next_roles
AiPredictCareerTrajectory(progression) ==
    IF progression = <<>> THEN [ok |-> TRUE, val |-> <<>>]
    ELSE [ok |-> /\ EnhancedDefines("_calculate_skill_growth_rate")
                 /\ EnhancedDefines("_get_next_roles"),
          val |-> <<>>]

\* AdvancedAnalyticsService._get_default_career_trajectory
AdvancedDefaultCareerTrajectory ==
    [work_experiences |-> <<>>,
     career_progression |-> <<>>,
     future_predictions |-> <<>>,
     current_level |-> "Unknown",
     next_roles |-> <<>>,
     skill_growth |-> <<>>]

\* AdvancedAnalyticsService.analyze_career_trajectory: building the result
\* calls self._determine_current_level (next_roles and skill_growth left out)
AdvancedAnalyzeCareerTrajectory(entries) ==
    LET work_experiences == SortByStartDate(WorkExperiences(entries))
        career_progression == CalculateCareerProgression(work_experiences)
        future_predictions == PredictCareerTrajectory(career_progression)
    IN  IF AdvancedDefines("_determine_current_level")
        THEN [work_experiences |-> work_experiences,
              career_progression |-> career_progression,
              future_predictions |-> future_predictions,
              current_level |-> "computed",
              next_roles |-> <<>>,
              skill_growth |-> <<>>]
        ELSE AdvancedDefaultCareerTrajectory

\* _determine_job_level of one title
ClassifyTitle ==
    /\ job_level' = [level |-> DetermineJobLevel(job_title)]
    /\ UNCHANGED <<job_title, career_input, career_result, hashseed>>
    /\ UNCHANGED <<matchVars, durationVars, gapVars, phase3Vars, teamVars,
                   experienceVars, parseVars>>

\* _predict_career_trajectory of the progression of the entries as listed
PredictTrajectory ==
    /\ career_result' =
          [career_result EXCEPT !.predictions =
              [val |-> PredictCareerTrajectory(
                          CalculateCareerProgression(career_input))]]
    /\ UNCHANGED <<job_title, job_level, career_input, hashseed>>
    /\ UNCHANGED <<matchVars, durationVars, gapVars, phase3Vars, teamVars,
                   experienceVars, parseVars>>

\* _ai_predict_career_trajectory of the progression the enhanced analysis
\* builds from the entries
AiPredictTrajectory ==
    /\ career_result' =
          [career_result EXCEPT !.ai_predictions =
              AiPredictCareerTrajectory(EnhancedCareerProgression(career_input))]
    /\ UNCHANGED <<job_title, job_level, career_input, hashseed>>
    /\ UNCHANGED <<matchVars, durationVars, gapVars, phase3Vars, teamVars,
                   experienceVars, parseVars>>

\* AdvancedAnalyticsService.analyze_career_trajectory for the user
AdvancedCareerTrajectory ==
    /\ career_result' =
          [career_result EXCEPT !.trajectory =
              AdvancedAnalyzeCareerTrajectory(career_input)]
    /\ UNCHANGED <<job_title, job_level, career_input, hashseed>>
    /\ UNCHANGED <<matchVars, durationVars, gapVars, phase3Vars, teamVars,
                   experienceVars, parseVars>>

\* every title of at most MaxTitleWords words
InitLevels ==
    /\ job_title \in {t \in SUBSET TitleWords : Cardinality(t) <= MaxTitleWords}
    /\ job_level = None
    /\ career_input = <<>>
    /\ career_result = None
    /\ hashseed \in [Workers -> {"a"}]
    /\ MatchIdle
    /\ DurationIdle
    /\ GapIdle
    /\ Phase3Idle
    /\ TeamIdle
    /\ ExperienceIdle
    /\ ParseIdle

NextClassify == ClassifyTitle

SpecLevels == InitLevels /\ [][NextClassify]_vars

\* one title per level the classifier gives, and the durations _parse_duration
\* tells apart
CareerPositions ==
    {{"junior", "Engineer"}, {"Engineer"}, {"Senior", "Lead", "Engineer"},
     {"principal", "Engineer"}, {"manager"}}

CareerDurations == {"present", "2 years", "none"}

InitCareer ==
    /\ career_input \in ListsUpTo([position : CareerPositions,
                                   duration : CareerDurations], MaxCareer)
    /\ career_result = [predictions |-> None, ai_predictions |-> None,
                        trajectory |-> None]
    /\ job_title = {}
    /\ job_level = None
    /\ hashseed \in [Workers -> {"a"}]
    /\ MatchIdle
    /\ DurationIdle
    /\ GapIdle
    /\ Phase3Idle
    /\ TeamIdle
    /\ ExperienceIdle
    /\ ParseIdle

NextCareer ==
    \/ PredictTrajectory
    \/ AiPredictTrajectory
    \/ AdvancedCareerTrajectory
    \/ CareerTrajectory

SpecCareer == InitCareer /\ [][NextCareer]_vars

(***************************************************************************)
(* Claims about calculate_match_score                                      *)
(***************************************************************************)
Abs(x) == IF x < 0 THEN 0 - x ELSE x

Called == match_result # None

\* C1: the returned matched_skills and missing_skills partition the job's
\* required skills: their union is the required set and they share nothing.
C1_MatchedMissingPartition ==
    Called =>
        /\ Range(match_result.matched_skills) \cup Range(match_result.missing_skills)
              = job_description.skills_required
        /\ Range(match_result.matched_skills) \cap Range(match_result.missing_skills)
              = {}

\* C2: with required skills the score is 100 * |matched| / |required| to two
\* decimals; with none the score is 0 and both lists are empty; the candidate
\* {python, react} against {python, aws} scores 50.00 on {python}, missing {aws}.
C2_ScoreFormula ==
    Called =>
        LET required == job_description.skills_required
            m == Cardinality(Range(match_result.matched_skills))
            n == Cardinality(required)
        IN  /\ n > 0 => /\ 2 * Abs(10000 * m - match_result.match_score * n) <= n
                        /\ Len(match_result.matched_skills) = m
            /\ n = 0 => /\ match_result.match_score = 0
                        /\ match_result.matched_skills = <<>>
                        /\ match_result.missing_skills = <<>>
            /\ ( /\ resume_data.skills = [kind |-> "dict", technical |-> {"python", "react"}]
                 /\ required = {"python", "aws"} )
               => /\ Range(match_result.matched_skills) = {"python"}
                  /\ Range(match_result.missing_skills) = {"aws"}
                  /\ match_result.match_score = 5000

C2_Witness ==
    /\ Called
    /\ \/ /\ resume_data.skills = [kind |-> "dict", technical |-> {"python", "react"}]
          /\ job_description.skills_required = {"python", "aws"}
          /\ match_result.match_score = 5000
       \/ /\ job_description.skills_required = {}
          /\ resume_data.skills.technical # {}
          /\ match_result.match_score = 0
       \/ /\ Cardinality(job_description.skills_required) = 3
          /\ match_result.match_score = 6667

NoSkillData(rd) ==
    rd.skills.kind \in {"absent", "list", "dict_no_technical"} \/ rd.skills.technical = {}

\* C3: a resume without parsed skill data is scored as an empty skill set:
\* every required skill is missing, nothing is matched, the score is 0.
C3_NoSkillDataIsEmptySet ==
    (Called /\ NoSkillData(resume_data)) =>
        /\ Range(match_result.missing_skills) = job_description.skills_required
        /\ match_result.matched_skills = <<>>
        /\ match_result.match_score = 0

\* the numbers written in a string: the values of its maximal digit runs
NumbersIn(s) ==
    {DecimalValue(SubSeq(s, i, j)) :
        <<i, j>> \in {p \in (1..Len(s)) \X (1..Len(s)) :
            /\ p[1] <= p[2]
            /\ \A k \in p[1]..p[2] : IsDigit(s[k])
            /\ (p[1] = 1 \/ ~IsDigit(s[p[1] - 1]))
            /\ (p[2] = Len(s) \/ ~IsDigit(s[p[2] + 1]))}}

\* C4: the experience gate is true when experience_required holds no number,
\* and otherwise says whether the resume's years reach the minimum year count
\* the string states.
C4_ExperienceGate ==
    Called =>
        LET required == job_description.experience_required
            years == CalculateTotalExperience(resume_data)
        IN  match_result.experience_match.match
              = (IF NumbersIn(required) = {} THEN TRUE
                 ELSE years >= SetMin(NumbersIn(required)))

SameOutcome(r1, r2) ==
    /\ r1.match_score = r2.match_score
    /\ Range(r1.matched_skills) = Range(r2.matched_skills)
    /\ Range(r1.missing_skills) = Range(r2.missing_skills)
    /\ r1.experience_match = r2.experience_match

C7_DurationParsingTotal ==
    parsed_months # None =>
        /\ parsed_months.phase3.ok
        /\ parsed_months.phase3.big \/ parsed_months.phase3.val \in Nat
        /\ parsed_months.views.ok
        /\ parsed_months.views.big \/ parsed_months.views.val \in Nat

(***************************************************************************)
(* Claims about the skills gap analysis                                    *)
(***************************************************************************)
CandidateSkills == UNION Range(user_resumes)

\* C8: missing_skills is the set of trending keys the candidate lacks and
\* existing_skills the set of trending keys the candidate has.
C8_MissingExistingPartition ==
    skills_gap # None =>
        /\ Range(skills_gap.missing_skills) = DOMAIN trending_skills \ CandidateSkills
        /\ Range(skills_gap.existing_skills) = DOMAIN trending_skills \cap CandidateSkills

\* C9: gap_percentage is 100 * |missing| / |trending| to two decimals, lies in
\* [0,100], and is 0 exactly when the table is empty or the candidate has
\* every trending key.
C9_GapPercentage ==
    (skills_gap # None /\ skills_gap.service = "enhanced") =>
        LET keys == DOMAIN trending_skills
            m == Cardinality(keys \ CandidateSkills)
            n == Cardinality(keys)
            g == skills_gap.gap_percentage
        IN  /\ 0 <= g /\ g <= 10000
            /\ n > 0 => 2 * Abs(10000 * m - g * n) <= n
            /\ (g = 0) <=> (keys = {} \/ keys \subseteq CandidateSkills)

InPercentRange(x) == 0 <= x.num /\ x.num <= 100 * x.den

Scored == semantic_match # None /\ "overall_score" \in DOMAIN semantic_match

C11_DivisionsGuarded ==
    /\ Scored =>
        /\ semantic_match.skill_relevance.relevance_score.den > 0
        /\ semantic_match.experience_relevance.relevance_score.den > 0
        /\ \A i \in DOMAIN semantic_match.experience_relevance.relevant_experience :
              semantic_match.experience_relevance.relevant_experience[i].relevance_score.den > 0
        /\ semantic_match.cultural_fit.overall_fit.den > 0
        /\ semantic_match.salary_alignment.fit_percentage.den > 0
        /\ semantic_match.confidence_score.den > 0
        /\ phase3_input.skills_required = {}
              => semantic_match.skill_relevance.relevance_score.num = 0
        /\ phase3_input.work_experience = <<>>
              => semantic_match.experience_relevance.relevance_score.num = 0
        /\ phase3_input.job_keywords = {}
              => semantic_match.cultural_fit.overall_fit.num = 0
    /\ (Called /\ job_description.skills_required = {}) =>
        /\ match_result.match_score = 0
        /\ match_result # MatchFallback
    /\ (skills_gap # None /\ DOMAIN trending_skills = {}) =>
        IF skills_gap.service = "advanced"
        THEN /\ skills_gap.gap_percentage.num = 0
             /\ skills_gap.gap_percentage.den > 0
        ELSE skills_gap.gap_percentage = 0

\* all three services have answered on empty lists and a 0..0 salary range
C11_Witness ==
    /\ Scored
    /\ phase3_input.skills_required = {}
    /\ phase3_input.work_experience = <<>>
    /\ phase3_input.requirements = <<>>
    /\ phase3_input.job_keywords = {}
    /\ phase3_input.salary_range = [min |-> 0, max |-> 0]
    /\ phase3_input.expected_salary = 50000
    /\ semantic_match.salary_alignment.fit_percentage = [num |-> 0, den |-> 50000]
    /\ Called
    /\ job_description.skills_required = {}
    /\ skills_gap # None
    /\ skills_gap.service = "advanced"

(***************************************************************************)
(* Claims about the record shapes of EnhancedAnalyticsService              *)
(***************************************************************************)
OperationKeys(operation) ==
    CASE operation = "analyze_career_trajectory" -> CareerTrajectoryKeys
      [] operation = "get_industry_trends" -> IndustryTrendsKeys
      [] operation = "get_salary_insights" -> SalaryInsightsKeys

\* C12: each of the four operations returns a record whose keys are those
\* of the record its computation builds, fallback included; the skills-gap
\* record holds current_skills, missing_skills and gap_percentage, the career
\* record work_experiences, career_progression and next_roles.
C12_FixedKeySets ==
    /\ skills_gap # None =>
        /\ DOMAIN skills_gap \ {"service"} = SkillsGapKeys
        /\ {"current_skills", "missing_skills", "gap_percentage"}
              \subseteq DOMAIN skills_gap
    /\ analytics # None =>
        /\ DOMAIN analytics.result = OperationKeys(analytics.operation)
        /\ analytics.operation = "analyze_career_trajectory" =>
              {"work_experiences", "career_progression", "next_roles"}
                 \subseteq DOMAIN analytics.result

\* the career operation has fallen back to its default for a user with a
\* resume, after a skills gap analysis
C12_Witness ==
    /\ skills_gap # None
    /\ user_resumes # <<>>
    /\ analytics # None
    /\ analytics.operation = "analyze_career_trajectory"
    /\ analytics.result = EnhancedDefaultCareerTrajectory

\* C13: team_analytics answers with the team metrics (total_resumes,
\* total_jobs, team_size) only when an organization_id is supplied and the
\* requesting user has a TeamMember row of that organization; without an
\* organization_id the answer is status 400, for a non-member it is status
\* 403, and neither of the two answers carries metrics
TeamMetricKeys == {"total_resumes", "total_jobs", "team_size"}

WholeNumbered(d) == \A i \in 1..Len(d) : d[i] \notin {".", NinesRun}

\* the months the mapping "N year(s)" -> N * 12, else "N month(s)" -> N,
\* else 12 gives a duration
MappedMonths(d) ==
    LET text == [i \in 1..Len(d) |-> LowerTok(d[i])]
        years == {p \in 1..Len(text) : IntMatchAt(text, p, HasYear)}
        months == {p \in 1..Len(text) : IntMatchAt(text, p, HasMonth)}
        N(p) == DecimalValue(SubSeq(text, p, DigitsEnd(text, p)))
    IN  IF years # {} THEN N(SetMin(years)) * 12
        ELSE IF months # {} THEN N(SetMin(months))
        ELSE 12

\* C14: both duration parsers map "N year(s)" to N * 12 months, otherwise
\* "N month(s)" to N months, and every other string to the default 12:
\* "3 years" gives 36, "Present" gives 12 and the empty string gives 12
C14_DurationMapping ==
    (parsed_months # None /\ WholeNumbered(duration)) =>
        /\ parsed_months.phase3.val = MappedMonths(duration)
        /\ parsed_months.views.val = MappedMonths(duration)

\* the entries without the i-th
WithoutEntry(experiences, i) ==
    SubSeq(experiences, 1, i - 1) \o SubSeq(experiences, i + 1, Len(experiences))

\* C15: the total-experience aggregations of the baseline matcher and of the
\* analytics service treat the entries independently: an entry that cannot be
\* parsed (for instance one with the word "year" and no digit) never takes
\* away what the other entries contribute, so the total is never less than
\* the total of the other entries alone
C15_EntriesIndependent ==
    \A i \in 1..Len(work_durations) :
        /\ total_experience.baseline # None =>
               total_experience.baseline.years >=
                   BaselineTotalExperience(WithoutEntry(work_durations, i)).years
        /\ total_experience.advanced # None =>
               total_experience.advanced.years >=
                   AdvancedTotalExperience(WithoutEntry(work_durations, i)).years

\* the months the duration parser gives the entries, summed
ParsedMonthsSum(experiences) ==
    SumParsed([i \in 1..Len(experiences) |->
                  ViewsParseDurationMonths(experiences[i])]).val

\* C16: total years of experience is the sum of the parsed months of the
\* entries divided by 12 and rounded down, in the baseline matcher, in the
\* career analysis and in the team analytics: "6 months" and "2 years 3
\* months" contribute their parsed months, neither nothing nor the number
\* their digits spell when joined
C16_TotalYearsFromMonths ==
    /\ total_experience.baseline # None =>
           total_experience.baseline.years = ParsedMonthsSum(work_durations) \div 12
    /\ total_experience.career # None =>
           total_experience.career.years = ParsedMonthsSum(work_durations) \div 12
    /\ total_experience.views # None =>
           total_experience.views.years = ParsedMonthsSum(work_durations) \div 12

(***************************************************************************)
(* Claims about skill comparison                                           *)
(***************************************************************************)
\* str.strip of a skill name
SkillStrip(skill) == IF skill = "python " THEN "python" ELSE skill

\* a skill name lower-cased and trimmed
NormalizedSkill(skill) == SkillStrip(SkillLower(skill))

\* the candidate lists the required skill in some spelling
ListedBy(technical, required) ==
    \E skill \in technical : NormalizedSkill(skill) = NormalizedSkill(required)

\* C17: both the baseline match and the extended skill relevance compare
\* skills after lower-casing and trimming them, so a required skill the
\* candidate lists in another letter case or with surrounding blanks counts
\* as matched and not as missing; normalising a name twice gives what
\* normalising it once gives
C17_SkillsCompareNormalized ==
    /\ \A skill \in SkillSpellings : SkillLower(SkillLower(skill)) = SkillLower(skill)
    /\ match_result # None =>
          \A required \in job_description.skills_required :
              ListedBy(resume_data.skills.technical, required)
                  => /\ required \in Range(match_result.matched_skills)
                     /\ required \notin Range(match_result.missing_skills)
    /\ (semantic_match # None /\ "error" \notin DOMAIN semantic_match) =>
          \A required \in phase3_input.skills_required :
              ListedBy(phase3_input.technical, required)
                  => LET relevance == semantic_match.skill_relevance
                     IN  /\ \E skill \in Range(relevance.exact_matches) :
                                NormalizedSkill(skill) = NormalizedSkill(required)
                         /\ SkillLower(required) \notin Range(relevance.missing_skills)

\* the required skill is a parent in the table of a skill the candidate has,
\* or a child in the table of a parent the candidate has
RelatedEitherWay(required, resume_set) ==
    \/ /\ required \in DOMAIN SkillRelationships
       /\ SkillRelationships[required] \cap resume_set # {}
    \/ \E parent \in DOMAIN SkillRelationships \cap resume_set :
          required \in SkillRelationships[parent]

\* C18: in the extended skill relevance a required skill without an exact
\* match is reported as related exactly when the table relates it to a skill
\* of the candidate, as the parent of that skill or as its child, and
\* missing_skills holds exactly the required skills with neither an exact
\* nor a related match
C18_RelatedSkills ==
    (semantic_match # None /\ "error" \notin DOMAIN semantic_match) =>
        LET resume_set == {SkillLower(skill) : skill \in phase3_input.technical}
            job_set == {SkillLower(skill) : skill \in phase3_input.skills_required}
            relevance == semantic_match.skill_relevance
        IN  /\ \A required \in job_set \ resume_set :
                   required \in DOMAIN relevance.related_matches
                       <=> RelatedEitherWay(required, resume_set)
            /\ Range(relevance.missing_skills) =
                   {required \in job_set \ resume_set :
                        ~RelatedEitherWay(required, resume_set)}

(***************************************************************************)
(* Claims about the extended scores                                        *)
(***************************************************************************)
\* C19: the primary score semantic_job_matching returns, overall_score, is
\* 0.4 * semantic_similarity + 0.3 * skill relevance + 0.3 * experience
\* relevance rounded to two decimals (so within half a hundredth of the
\* blend); cultural fit and salary alignment are no part of it
C19_OverallScoreIsBlend ==
    (semantic_match # None /\ "error" \notin DOMAIN semantic_match) =>
        LET s == phase3_input.cosine
            a == semantic_match.skill_relevance.relevance_score
            b == semantic_match.experience_relevance.relevance_score
            num == 4 * s * a.den * b.den + 3 * a.num * b.den + 3 * b.num * a.den
            den == 10 * a.den * b.den
        IN  2 * Abs(semantic_match.overall_score * den - 100 * num) <= den

RECURSIVE GCD(_, _)
GCD(m, n) == IF n = 0 THEN m ELSE GCD(n, m % n)

\* the fraction f is num / den, both taken in lowest terms
SameFraction(f, num, den) ==
    LET g == GCD(f.num, f.den)
        h == GCD(num, den)
    IN  /\ f.num \div g = num \div h
        /\ f.den \div g = den \div h

\* C20: the salary fit is 100 when the candidate record yields no expected
\* salary or the expected salary lies inside [min, max] of the job's range,
\* expected / min * 100 when it is below min and max / expected * 100 when it
\* is above max; the alignment label is "aligned" exactly when the fit is 100
C20_SalaryFit ==
    (semantic_match # None /\ "error" \notin DOMAIN semantic_match) =>
        LET expected == phase3_input.expected_salary
            min_sal == phase3_input.salary_range.min
            max_sal == phase3_input.salary_range.max
            fit == semantic_match.salary_alignment.fit_percentage
            alignment == semantic_match.salary_alignment.alignment
        IN  /\ fit.den > 0
            /\ (expected = 0 \/ (expected >= min_sal /\ expected <= max_sal))
                   => SameFraction(fit, 100, 1)
            /\ (expected # 0 /\ expected < min_sal)
                   => SameFraction(fit, 100 * expected, min_sal)
            /\ (expected # 0 /\ expected >= min_sal /\ expected > max_sal)
                   => SameFraction(fit, 100 * max_sal, expected)
            /\ (alignment = "aligned") <=> SameFraction(fit, 100, 1)

\* a candidate expecting 50000 was matched with a job paying 60000 to 100000
C20_Witness ==
    /\ semantic_match # None
    /\ "error" \notin DOMAIN semantic_match
    /\ phase3_input.expected_salary = 50000
    /\ phase3_input.salary_range = [min |-> 60000, max |-> 100000]
    /\ semantic_match.salary_alignment.alignment = "below_range"

(***************************************************************************)
(* Claims about the cultural fit                                           *)
(***************************************************************************)
\* the weights of the five indicators, in hundredths
CulturalWeights == <<25, 20, 20, 20, 15>>

\* the sum of f over the indices in S
RECURSIVE SumOver(_, _)
SumOver(f, S) ==
    IF S = {} THEN 0
    ELSE LET i == CHOOSE k \in S : TRUE IN f[i] + SumOver(f, S \ {i})

\* C21: an indicator of the cultural fit contributes min(candidate keyword
\* count / job keyword count, 1.0) exactly when the job text mentions it;
\* indicators the job does not mention are left out of the average; the
\* overall fit is the combination of the included indicators under the
\* weights 0.25, 0.20, 0.20, 0.20, 0.15, scaled to [0,100] (taken here either
\* over the included weights or over all five), and the assessment that
\* carries these weights returns it
C21_CulturalFitWeighted ==
    /\ (semantic_match # None /\ "error" \notin DOMAIN semantic_match) =>
        LET n == Len(CulturalKeywords)
            resume_score == [i \in 1..n |->
                Cardinality(CulturalKeywords[i].keywords \cap phase3_input.resume_keywords)]
            job_score == [i \in 1..n |->
                Cardinality(CulturalKeywords[i].keywords \cap phase3_input.job_keywords)]
            included == {i \in 1..n : job_score[i] > 0}
            fit == semantic_match.cultural_fit
            \* 12 * min(resume / job, 1) for the included, weighted
            weighted == [i \in 1..n |->
                IF i \in included
                THEN CulturalWeights[i] *
                        (IF resume_score[i] >= job_score[i] THEN 12
                         ELSE (12 * resume_score[i]) \div job_score[i])
                ELSE 0]
            weights == [i \in 1..n |-> IF i \in included THEN CulturalWeights[i] ELSE 0]
            total == SumOver(weighted, 1..n)
            weight == SumOver(weights, 1..n)
            overall == fit.overall_fit
        IN  /\ \A i \in 1..n :
                   CulturalKeywords[i].culture_type \in DOMAIN fit.cultural_indicators
                       <=> i \in included
            /\ \A i \in included :
                   LET f == fit.cultural_indicators[CulturalKeywords[i].culture_type]
                   IN  IF resume_score[i] >= job_score[i] THEN f.num = f.den
                       ELSE f.num * job_score[i] = f.den * resume_score[i]
            /\ \/ overall.num * 12 * weight = overall.den * 100 * total
               \/ overall.num * 12 * 100 = overall.den * 100 * total
    /\ cultural_assessment # None => "overall_cultural_fit" \in DOMAIN cultural_assessment

(***************************************************************************)
(* Claims about the priority list and the learning path                    *)
(***************************************************************************)
\* the names of the trending table in alphabetical order
AlphabeticalSkills ==
    <<"AWS", "Docker", "GraphQL", "Kubernetes", "Machine Learning",
      "Microservices", "Node.js", "Python", "React", "TypeScript">>

AlphabeticalRank(skill) ==
    CHOOSE i \in 1..Len(AlphabeticalSkills) : AlphabeticalSkills[i] = skill

\* a comes before b: higher salary_impact, then higher demand, then the name
PriorityBefore(a, b, trending) ==
    \/ trending[a].salary_impact > trending[b].salary_impact
    \/ /\ trending[a].salary_impact = trending[b].salary_impact
       /\ \/ trending[a].demand > trending[b].demand
          \/ /\ trending[a].demand = trending[b].demand
             /\ AlphabeticalRank(a) < AlphabeticalRank(b)

\* priority is a list of exactly the skills of missing, in PriorityBefore
\* order and labelled by demand
IsPriorityListOf(priority, missing, trending) ==
    /\ Len(priority) = Cardinality(missing)
    /\ {priority[i].skill : i \in 1..Len(priority)} = missing
    /\ \A i, j \in 1..Len(priority) :
           i < j => PriorityBefore(priority[i].skill, priority[j].skill, trending)
    /\ \A i \in 1..Len(priority) :
           priority[i].priority =
               (IF trending[priority[i].skill].demand > 6000 THEN "high" ELSE "medium")

\* C22: the priority list of the skills gap analysis holds exactly the
\* missing skills, by descending salary_impact, ties by descending demand and
\* then by name, so the order is the same for every call with the same
\* inputs; an entry is "high" if its demand is over 6000, else "medium"
C22_PriorityList ==
    (skills_gap # None /\ skills_gap.service = "enhanced") =>
        IsPriorityListOf(skills_gap.priority_skills,
                         DOMAIN trending_skills \ CandidateSkills,
                         trending_skills)

\* the skills of the static category tables
CategorisedSkills == UNION {SkillCategories[i].skills : i \in 1..Len(SkillCategories)}

\* C23: in the learning path every grouped skill is a missing skill of that
\* group's category table, no group is empty, and a missing skill of no
\* category (GraphQL, Microservices) is in no group but still in the flat
\* missing_skills list
C23_LearningPathGroups ==
    (skills_gap # None /\ skills_gap.service = "enhanced") =>
        LET missing == DOMAIN trending_skills \ CandidateSkills
            path == skills_gap.learning_path
            table(category) ==
                LET i == CHOOSE k \in 1..Len(SkillCategories) :
                             SkillCategories[k].category = category
                IN  SkillCategories[i].skills
            grouped == UNION {Range(path[i].skills) : i \in 1..Len(path)}
        IN  /\ \A i \in 1..Len(path) :
                   /\ path[i].skills # <<>>
                   /\ Range(path[i].skills) \subseteq missing \cap table(path[i].category)
            /\ grouped \cap (missing \ CategorisedSkills) = {}
            /\ missing \ CategorisedSkills \subseteq Range(skills_gap.missing_skills)

(***************************************************************************)
(* Claims about the career analysis                                        *)
(***************************************************************************)
\* the keyword groups with a keyword in the title
HitGroups(title) ==
    {i \in 1..Len(JobLevelKeywords) :
        \E word \in title : KeywordsInWord(word) \cap JobLevelKeywords[i].keywords # {}}

\* C24: the level of a title is the level of the first of the keyword groups
\* Junior, Mid, Senior, Lead, Manager, in this order, with a keyword in the
\* lower-cased title, and Mid-level when no group has one; "Senior Lead
\* Engineer" is Senior; the same title always gets the same level
C24_FirstGroupWins ==
    job_level # None =>
        /\ HitGroups(job_title) = {} => job_level.level = "Mid-level"
        /\ HitGroups(job_title) # {} =>
               job_level.level = JobLevelKeywords[SetMin(HitGroups(job_title))].level
        /\ job_title = {"Senior", "Lead", "Engineer"} => job_level.level = "Senior"
        /\ <<JobLevelKeywords[1].level, JobLevelKeywords[2].level,
             JobLevelKeywords[3].level, JobLevelKeywords[4].level,
             JobLevelKeywords[5].level>>
               = <<"Junior", "Mid-level", "Senior", "Lead", "Manager">>

\* "Senior Lead Engineer" has been classified
C24_Witness ==
    /\ job_title = {"Senior", "Lead", "Engineer"}
    /\ job_level # None
    /\ job_level.level = "Senior"

\* the positions of the entries in the order a stable sort by start date
\* gives: the entries a year back first, then those dated now (present, or
\* not parseable), each part in the order of the resume
StableByStartDate(entries) ==
    LET dated(e) == e.duration \in {"present", "current", "none"}
        ordered == SelectSeq(entries, LAMBDA e : ~dated(e))
                       \o SelectSeq(entries, LAMBDA e : dated(e))
    IN  [i \in 1..Len(ordered) |-> ordered[i].position]

\* C25: the career trajectory analysis sorts the work-experience entries by
\* inferred start date, ascending and stable, before it classifies them:
\* career_progression lists the entries in that order, those with equal or
\* unparseable dates in their original order, and an entry that cannot be
\* parsed does not make the analysis fail
C25_ProgressionStableSorted ==
    /\ (career_result # None /\ career_result.trajectory # None) =>
          LET progression == career_result.trajectory.career_progression
          IN  [i \in 1..Len(progression) |-> progression[i].position]
                  = StableByStartDate(career_input)
    /\ (analytics # None /\ analytics.operation = "analyze_career_trajectory") =>
          LET progression == analytics.result.career_progression
          IN  [i \in 1..Len(progression) |-> progression[i].position]
                  = StableByStartDate(career_input)

ClassifierLevels ==
    {DetermineJobLevel(title) :
        title \in {t \in SUBSET TitleWords : Cardinality(t) <= MaxTitleWords}}

\* C29: every level with a keyword group is reached through each of its
\* keywords: a title whose only level keyword belongs to one group gets that
\* group's level, a title whose only level keyword is "lead" is Lead, and the
\* levels the classifier can give cover every key of the adjacency table
C29_LevelsReachable ==
    job_level # None =>
        LET found == UNION {KeywordsInWord(word) : word \in job_title}
        IN  /\ \A i \in 1..Len(JobLevelKeywords) :
                   \A keyword \in JobLevelKeywords[i].keywords :
                       (/\ found = {keyword}
                        /\ \A j \in 1..Len(JobLevelKeywords) :
                               keyword \in JobLevelKeywords[j].keywords => j = i)
                           => job_level.level = JobLevelKeywords[i].level
            /\ found = {"lead"} => job_level.level = "Lead"
            /\ DOMAIN NextLevels \subseteq ClassifierLevels

(***************************************************************************)
(* Claims about the skill score as a function of the candidate's skills    *)
(***************************************************************************)
\* the resumes that differ from rd only in holding more skills
WithMoreSkills(rd) ==
    {[rd EXCEPT !.skills = shape] :
        shape \in {sh \in SkillsShapes : rd.skills.technical \subseteq sh.technical}}

\* C27: for a fixed non-empty required skill set the skill score is
\* monotonically non-decreasing in the candidate skill set: a candidate with
\* more skills never has a lower match_score, and no skill that was in
\* matched_skills is in missing_skills
C27_ScoreMonotone ==
    (match_result # None /\ job_description.skills_required # {}) =>
        \A more \in WithMoreSkills(resume_data) : \A seed \in HashSeeds :
            LET after == CalculateMatchScore(more, job_description, seed)
            IN  /\ after.match_score >= match_result.match_score
                /\ Range(match_result.matched_skills) \subseteq Range(after.matched_skills)
                /\ Range(match_result.matched_skills) \cap Range(after.missing_skills) = {}

\* a candidate with one of two required skills was scored, and one more
\* skill completes the match
C27_Witness ==
    /\ match_result # None
    /\ job_description.skills_required = {"python", "react"}
    /\ resume_data.skills.kind = "dict"
    /\ resume_data.skills.technical = {"python"}
    /\ match_result.match_score = 5000
    /\ \E more \in WithMoreSkills(resume_data) :
           CalculateMatchScore(more, job_description, "a").match_score = 10000

\* C28: in the extended skill relevance exact_matches, the keys of
\* related_matches and missing_skills are pairwise disjoint and their union
\* is the lower-cased required skill set: no required skill is reported both
\* as an exact match and as a related match
C28_RelevancePartition ==
    (semantic_match # None /\ "error" \notin DOMAIN semantic_match) =>
        LET job_set == {SkillLower(skill) : skill \in phase3_input.skills_required}
            relevance == semantic_match.skill_relevance
            exact == Range(relevance.exact_matches)
            related == DOMAIN relevance.related_matches
            missing == Range(relevance.missing_skills)
        IN  /\ exact \cap related = {}
            /\ exact \cap missing = {}
            /\ related \cap missing = {}
            /\ exact \cup related \cup missing = job_set

(***************************************************************************)
(* parse_resume_task and the bulk_parse view (tasks.py, views.py)          *)
(***************************************************************************)
MaxDispatch == 2   \* parse_resume_task messages sent per resume
MaxIds == 2        \* resume_ids of one bulk_parse request

\* an id without a Resume row of the requesting user
UnknownId == "r0"

\* bulk_parse: how often the loop sends a task for rid: once per occurrence
\* in resume_ids of a row of the user whose status reads 'pending'
Dispatches(resume_ids, rid) ==
    IF processing_status[rid] = "pending"
    THEN Cardinality({i \in 1..Len(resume_ids) : resume_ids[i] = rid})
    ELSE 0

\* ResumeViewSet.bulk_parse: ids without a row raise Resume.DoesNotExist and
\* are skipped; parsed_count goes into the Response
BulkParse(resume_ids) ==
    /\ \A rid \in ResumeIds :
           dispatched[rid] + Dispatches(resume_ids, rid) <= MaxDispatch
    /\ task_queue' = [rid \in ResumeIds |->
                         task_queue[rid] + Dispatches(resume_ids, rid)]
    /\ dispatched' = [rid \in ResumeIds |->
                         dispatched[rid] + Dispatches(resume_ids, rid)]
    /\ bulk_response' =
           [count |-> Cardinality({i \in 1..Len(resume_ids) :
                                      /\ resume_ids[i] \in ResumeIds
                                      /\ processing_status[resume_ids[i]] = "pending"})]
    /\ UNCHANGED <<processing_status, parsed_resume, worker_task, hashseed>>
    /\ UNCHANGED <<matchVars, durationVars, gapVars, phase3Vars, teamVars,
                   experienceVars, careerVars>>

\* whether worker w is inside parse_resume_task
Running(w) ==
    /\ worker_task[w] # None
    /\ worker_task[w].pc # "returned"

\* a worker takes a parse_resume_task message off the queue
StartTask(w, rid) ==
    /\ ~Running(w)
    /\ task_queue[rid] > 0
    /\ task_queue' = [task_queue EXCEPT ![rid] = @ - 1]
    /\ worker_task' = [worker_task EXCEPT ![w] = [resume |-> rid, pc |-> "parse"]]
    /\ UNCHANGED <<processing_status, parsed_resume, dispatched, bulk_response,
                   hashseed>>
    /\ UNCHANGED <<matchVars, durationVars, gapVars, phase3Vars, teamVars,
                   experienceVars, careerVars>>

\* parse_resume_task, lines 11-20: the row is read, the text extracted and
\* parsed; extract_text_from_file re-raises what reading the file raises
ExtractAndParse(w) ==
    /\ Running(w)
    /\ worker_task[w].pc = "parse"
    /\ \E raised \in BOOLEAN :
           worker_task' = [worker_task EXCEPT
                              ![w].pc = IF raised THEN "except" ELSE "save"]
    /\ UNCHANGED <<processing_status, parsed_resume, task_queue, dispatched,
                   bulk_response, hashseed>>
    /\ UNCHANGED <<matchVars, durationVars, gapVars, phase3Vars, teamVars,
                   experienceVars, careerVars>>

\* parse_resume_task, lines 23-26: processing_status = 'completed', save()
SaveCompleted(w) ==
    /\ Running(w)
    /\ worker_task[w].pc = "save"
    /\ processing_status' =
           [processing_status EXCEPT ![worker_task[w].resume] = "completed"]
    /\ worker_task' = [worker_task EXCEPT ![w].pc = "create"]
    /\ UNCHANGED <<parsed_resume, task_queue, dispatched, bulk_response, hashseed>>
    /\ UNCHANGED <<matchVars, durationVars, gapVars, phase3Vars, teamVars,
                   experienceVars, careerVars>>

\* ParsedResume.objects.create: resume is a OneToOneField, the insert of a
\* second row for the same resume raises IntegrityError
InsertParsedResume(rows) ==
    IF rows = 0 THEN [ok |-> TRUE, rows |-> 1]
    ELSE [ok |-> FALSE, rows |-> rows]

\* parse_resume_task, lines 29-41: the row is created and the task returns,
\* or the insert raises
CreateParsedResume(w) ==
    /\ Running(w)
    /\ worker_task[w].pc = "create"
    /\ LET rid == worker_task[w].resume
           insert == InsertParsedResume(parsed_resume[rid])
       IN  /\ parsed_resume' = [parsed_resume EXCEPT ![rid] = insert.rows]
           /\ worker_task' =
                  [worker_task EXCEPT
                      ![w] = IF insert.ok
                             THEN [resume |-> rid, pc |-> "returned",
                                   result |-> "parsed successfully"]
                             ELSE [resume |-> rid, pc |-> "except"]]
    /\ UNCHANGED <<processing_status, task_queue, dispatched, bulk_response,
                   hashseed>>
    /\ UNCHANGED <<matchVars, durationVars, gapVars, phase3Vars, teamVars,
                   experienceVars, careerVars>>

\* parse_resume_task, lines 43-47: the except branch reads the row again,
\* saves it as 'failed' and returns the error text
ExceptFailed(w) ==
    /\ Running(w)
    /\ worker_task[w].pc = "except"
    /\ processing_status' =
           [processing_status EXCEPT ![worker_task[w].resume] = "failed"]
    /\ worker_task' =
           [worker_task EXCEPT
               ![w] = [resume |-> worker_task[w].resume, pc |-> "returned",
                       result |-> "Error parsing"]]
    /\ UNCHANGED <<parsed_resume, task_queue, dispatched, bulk_response, hashseed>>
    /\ UNCHANGED <<matchVars, durationVars, gapVars, phase3Vars, teamVars,
                   experienceVars, careerVars>>

\* two uploaded resumes, nothing parsed yet
InitParse ==
    /\ ParseIdle
    /\ hashseed \in [Workers -> {"a"}]
    /\ MatchIdle
    /\ DurationIdle
    /\ GapIdle
    /\ Phase3Idle
    /\ TeamIdle
    /\ ExperienceIdle
    /\ CareerIdle

NextParse ==
    \/ \E resume_ids \in ListsUpTo(ResumeIds \cup {UnknownId}, MaxIds) :
           BulkParse(resume_ids)
    \/ \E w \in Workers :
           \/ \E rid \in ResumeIds : StartTask(w, rid)
           \/ ExtractAndParse(w)
           \/ SaveCompleted(w)
           \/ CreateParsedResume(w)
           \/ ExceptFailed(w)

SpecParse == InitParse /\ [][NextParse]_vars

(***************************************************************************)
(* Claims about repeated parsing                                           *)
(***************************************************************************)
\* C30: once parse_resume_task has succeeded for a resume (status
\* 'completed', one ParsedResume row), every further execution of the task
\* for that resume, a second one sent by bulk_parse while the status was
\* still 'pending' included, leaves the status 'completed' and exactly one
\* ParsedResume row: whenever no execution for the resume is under way
C30_ParseIdempotent ==
    \A rid \in ResumeIds :
        (/\ parsed_resume[rid] >= 1
         /\ \A w \in Workers : Running(w) => worker_task[w].resume # rid)
            => /\ processing_status[rid] = "completed"
               /\ parsed_resume[rid] = 1

====
